---- MODULE Spec2Model ----
(***************************************************************************)
(* A model of the asosuite command line client (src/src/index.mjs, the     *)
(* second, complete copy of the program that starts at line 702).          *)
(*                                                                         *)
(* Strings of the program that are inspected character by character        *)
(* (argument tokens, option values, server supplied codes and tokens) are  *)
(* sequences of one-character strings.  Strings that are only compared or  *)
(* printed (command names, error messages, request paths) are TLA+         *)
(* strings.  JavaScript's null/undefined is the value Null.                *)
(***************************************************************************)
EXTENDS Integers, Sequences, FiniteSets, TLC

\* ------------------------------------------------------------------------
\* Bounds of the model (not program constants)
\* ------------------------------------------------------------------------

\* Longest time, in seconds, between two consecutive reads of the clock that
\* is not accounted for by the sleep itself (request latency, oversleeping).
MaxDelay == 1

\* ------------------------------------------------------------------------
\* Program constants
\* ------------------------------------------------------------------------

MAX_KEYWORDS == 50
MAX_TRACKED_KEYWORDS_ADD == 200
DEFAULT_POLL_INTERVAL_SECONDS == 3
DEFAULT_EXPIRES_IN_SECONDS == 600
DEFAULT_PERIOD == 30
APP_ID_MIN_LENGTH == 6
MAX_PLANNED_TRACKED_APP_ID_LENGTH == 64
TRACKED_KEYWORDS_MAX_PAGE == 1000
API_BASE_URL == "https://server.asosuite.com"
DEFAULT_REGION == <<"U", "S">>
DEFAULT_PLATFORM == <<"i", "p", "h", "o", "n", "e">>
SUPPORTED_PLATFORMS ==
  { <<"i", "p", "h", "o", "n", "e">>, <<"i", "p", "a", "d">>, <<"m", "a", "c">>,
    <<"a", "p", "p", "l", "e", "t", "v">>, <<"w", "a", "t", "c", "h">>,
    <<"v", "i", "s", "i", "o", "n">> }
TRACKED_KEYWORDS_SORT_FIELDS ==
  { <<"k", "e", "y", "w", "o", "r", "d">>,
    <<"r", "e", "l", "e", "v", "a", "n", "c", "e">>,
    <<"p", "o", "p", "u", "l", "a", "r", "i", "t", "y">>,
    <<"d", "i", "f", "f", "i", "c", "u", "l", "t", "y">>,
    <<"p", "o", "s", "i", "t", "i", "o", "n">>,
    <<"l", "a", "s", "t", "U", "p", "d", "a", "t", "e">> }
TRACKED_KEYWORDS_SORT_DEFAULT == <<"k", "e", "y", "w", "o", "r", "d">>
TRACKED_KEYWORDS_ORDER_VALUES == { <<"a", "s", "c">>, <<"d", "e", "s", "c">> }
TRACKED_KEYWORDS_ORDER_DEFAULT == <<"a", "s", "c">>

\* ------------------------------------------------------------------------
\* JavaScript values and string primitives
\* ------------------------------------------------------------------------

\* null / undefined.  No string equals it: strings hold one-character items.
Null == <<"NULL">>

\* A JSON number field of a server payload: absent, or present with the
\* value n + frac / 10 (n an integer, frac in 0..9).
Absent == [present |-> FALSE, n |-> 0, frac |-> 0]
Num(k) == [present |-> TRUE, n |-> k, frac |-> 0]
Decimal(k, tenths) == [present |-> TRUE, n |-> k, frac |-> tenths]

Range(s) == { s[i] : i \in 1..Len(s) }

LowerLetters ==
  <<"a", "b", "c", "d", "e", "f", "g", "h", "i", "j", "k", "l", "m",
    "n", "o", "p", "q", "r", "s", "t", "u", "v", "w", "x", "y", "z">>
UpperLetters ==
  <<"A", "B", "C", "D", "E", "F", "G", "H", "I", "J", "K", "L", "M",
    "N", "O", "P", "Q", "R", "S", "T", "U", "V", "W", "X", "Y", "Z">>
DigitChars == {"0", "1", "2", "3", "4", "5", "6", "7", "8", "9"}
\* the white space String.prototype.trim and the regular expression \s remove
WhiteSpace == {" ", "\t", "\n"}
QuoteChars == {"\"", "'"}
\* \w of a regular expression
WordChars == Range(LowerLetters) \cup Range(UpperLetters) \cup DigitChars \cup {"_"}

PosIn(seq, c) == CHOOSE i \in 1..Len(seq) : seq[i] = c

\* String.prototype.toUpperCase / toLowerCase, one character at a time
UpperChar(c) ==
  IF c \in Range(LowerLetters) THEN UpperLetters[PosIn(LowerLetters, c)] ELSE c
LowerChar(c) ==
  IF c \in Range(UpperLetters) THEN LowerLetters[PosIn(UpperLetters, c)] ELSE c
toUpperCase(s) == [i \in 1..Len(s) |-> UpperChar(s[i])]
toLowerCase(s) == [i \in 1..Len(s) |-> LowerChar(s[i])]

RECURSIVE TrimStart(_)
TrimStart(s) ==
  IF s = <<>> THEN s
  ELSE IF Head(s) \in WhiteSpace THEN TrimStart(Tail(s)) ELSE s

RECURSIVE TrimEnd(_)
TrimEnd(s) ==
  IF s = <<>> THEN s
  ELSE IF s[Len(s)] \in WhiteSpace THEN TrimEnd(SubSeq(s, 1, Len(s) - 1)) ELSE s

\* String.prototype.trim
trim(s) == TrimEnd(TrimStart(s))

\* String(value || ''): null, undefined and '' all give ''
StringOrEmpty(v) == IF v = Null THEN <<>> ELSE v

\* a text as one string value, as template literals and Error messages hold it
RECURSIVE Text(_)
Text(chars) == IF chars = <<>> THEN "" ELSE Head(chars) \o Text(Tail(chars))

startsWith(s, prefix) ==
  Len(s) >= Len(prefix) /\ SubSeq(s, 1, Len(prefix)) = prefix

AllDigits(s) == \A i \in 1..Len(s) : s[i] \in DigitChars


\* the end (inclusive) of the longest run of digits of s that starts at i;
\* i - 1 when s[i] is no digit
RECURSIVE DigitRunEnd(_, _)
DigitRunEnd(s, i) ==
  IF i <= Len(s) /\ s[i] \in DigitChars THEN DigitRunEnd(s, i + 1) ELSE i - 1

\* ------------------------------------------------------------------------
\* Argument list primitives
\* ------------------------------------------------------------------------

\* Array.prototype.indexOf, 1-based; 0 when the item is absent
indexOf(rest, name) ==
  IF \E i \in 1..Len(rest) : rest[i] = name
  THEN CHOOSE i \in 1..Len(rest) :
         rest[i] = name /\ \A j \in 1..(i - 1) : rest[j] # name
  ELSE 0

\* rest.splice(index, count)
splice(rest, index, count) ==
  SubSeq(rest, 1, index - 1) \o SubSeq(rest, index + count, Len(rest))

\* takeOption(rest, name): threw = 'Missing value for <name>'
takeOption(rest, name) ==
  LET index == indexOf(rest, name)
  IN  IF index = 0 THEN [threw |-> FALSE, value |-> Null, rest |-> rest]
      ELSE IF index = Len(rest)
      THEN [threw |-> TRUE, value |-> Null, rest |-> rest]
      ELSE [threw |-> FALSE, value |-> rest[index + 1],
            rest |-> splice(rest, index, 2)]

takeFlag(rest, name) ==
  LET index == indexOf(rest, name)
  IN  IF index = 0 THEN [value |-> FALSE, rest |-> rest]
      ELSE [value |-> TRUE, rest |-> splice(rest, index, 1)]

\* ------------------------------------------------------------------------
\* Input normalizers
\* ------------------------------------------------------------------------

normalizePlatform(value) ==
  LET normalized == toLowerCase(trim(StringOrEmpty(value)))
  IN  IF normalized \notin SUPPORTED_PLATFORMS THEN Null ELSE normalized

normalizeRegionCode(value) ==
  LET normalized == toUpperCase(trim(StringOrEmpty(value)))
  IN  IF ~(Len(normalized) = 2 /\ \A i \in 1..2 : normalized[i] \in Range(UpperLetters))
      THEN Null
      ELSE normalized

\* Number.parseInt(text, 10): leading white space, an optional sign, then the
\* longest prefix of digits; NaN when there is no digit.
RECURSIVE DigitsValue(_, _)
DigitsValue(s, acc) ==
  IF s = <<>> THEN acc
  ELSE DigitsValue(Tail(s), acc * 10 + (PosIn(<<"0", "1", "2", "3", "4", "5", "6", "7", "8", "9">>, Head(s)) - 1))

NaN == [nan |-> TRUE, n |-> 0]

parseInt(text) ==
  LET t == TrimStart(text)
      signed == t # <<>> /\ Head(t) \in {"+", "-"}
      body == IF signed THEN Tail(t) ELSE t
      last == DigitRunEnd(body, 1)
  IN  IF last = 0 THEN NaN
      ELSE [nan |-> FALSE,
            n |-> IF signed /\ Head(t) = "-"
                  THEN 0 - DigitsValue(SubSeq(body, 1, last), 0)
                  ELSE DigitsValue(SubSeq(body, 1, last), 0)]

\* parsePeriodValue: 0 stands for the null it returns
parsePeriodValue(value) ==
  LET parsed == parseInt(trim(StringOrEmpty(value)))
  IN  IF parsed.nan \/ parsed.n \notin {7, 30, 90} THEN 0 ELSE parsed.n

\* String.prototype.split(',')
RECURSIVE SplitComma(_, _)
SplitComma(s, cur) ==
  IF s = <<>> THEN <<cur>>
  ELSE IF Head(s) = "," THEN <<cur>> \o SplitComma(Tail(s), <<>>)
  ELSE SplitComma(Tail(s), Append(cur, Head(s)))

\* Array.from(new Set(list)): first occurrences, in order
RECURSIVE Dedupe(_, _)
Dedupe(list, seen) ==
  IF list = <<>> THEN seen
  ELSE IF Head(list) \in Range(seen) THEN Dedupe(Tail(list), seen)
  ELSE Dedupe(Tail(list), Append(seen, Head(list)))

parseRegionsOption(value) ==
  LET raw == trim(StringOrEmpty(value))
  IN  IF raw = <<>> THEN <<>>
      ELSE LET entries == SplitComma(raw, <<>>)
               mapped == [i \in 1..Len(entries) |-> normalizeRegionCode(entries[i])]
               regions == SelectSeq(mapped, LAMBDA e : e # Null)
           IN  Dedupe(regions, <<>>)

\* value.replace(/\s+/g, replacement) with replacement '' or ' '
RECURSIVE ReplaceSpaceRuns(_, _, _)
ReplaceSpaceRuns(s, replacement, inRun) ==
  IF s = <<>> THEN <<>>
  ELSE IF Head(s) \in WhiteSpace
  THEN (IF inRun THEN <<>> ELSE replacement) \o ReplaceSpaceRuns(Tail(s), replacement, TRUE)
  ELSE <<Head(s)>> \o ReplaceSpaceRuns(Tail(s), replacement, FALSE)

\* normalizePlannedTrackedAppId keeping the whitespace inside the value
normalizePlannedTrackedAppIdTrimOnly(value) ==
  LET normalized == trim(StringOrEmpty(value))
  IN  IF normalized = <<>> THEN Null
      ELSE IF Len(normalized) > MAX_PLANNED_TRACKED_APP_ID_LENGTH THEN Null
      ELSE normalized

\* normalizePlannedTrackedAppId: Null or the value without its whitespace
normalizePlannedTrackedAppId(value) ==
  LET normalized == ReplaceSpaceRuns(trim(StringOrEmpty(value)), <<>>, FALSE)
  IN  IF normalized = <<>> THEN Null
      ELSE IF Len(normalized) > MAX_PLANNED_TRACKED_APP_ID_LENGTH THEN Null
      ELSE normalized

\* ------------------------------------------------------------------------
\* App locators
\* ------------------------------------------------------------------------

\* new URL(text): threw when the text has no scheme; otherwise the pathname.
\* A scheme is a letter followed by letters, digits, '+', '-' or '.', up to
\* the first ':'.  After 'scheme://' comes the host, up to the next '/', '?'
\* or '#'; the pathname runs from there to the first '?' or '#' and is '/'
\* when empty.  Without '//' the pathname is what follows the ':'.
SchemeChars == Range(LowerLetters) \cup Range(UpperLetters) \cup DigitChars \cup {"+", "-", "."}

RECURSIVE SchemeEnd(_, _)
SchemeEnd(s, i) ==
  IF i > Len(s) THEN 0
  ELSE IF s[i] = ":" THEN i
  ELSE IF s[i] \in SchemeChars THEN SchemeEnd(s, i + 1)
  ELSE 0

RECURSIVE TakeUntil(_, _)
TakeUntil(s, stops) ==
  IF s = <<>> \/ Head(s) \in stops THEN <<>>
  ELSE <<Head(s)>> \o TakeUntil(Tail(s), stops)

parseURL(text) ==
  LET colon == IF text # <<>> /\ Head(text) \in (Range(LowerLetters) \cup Range(UpperLetters))
               THEN SchemeEnd(text, 2) ELSE 0
      after == SubSeq(text, colon + 1, Len(text))
      hasAuthority == startsWith(after, <<"/", "/">>)
      authority == TakeUntil(SubSeq(after, 3, Len(after)), {"/", "?", "#"})
      pathPart == IF hasAuthority
                  THEN TakeUntil(SubSeq(after, 3 + Len(authority), Len(after)), {"?", "#"})
                  ELSE TakeUntil(after, {"?", "#"})
  IN  IF colon = 0 THEN [threw |-> TRUE, pathname |-> <<>>]
      ELSE IF hasAuthority /\ authority = <<>> THEN [threw |-> TRUE, pathname |-> <<>>]
      ELSE [threw |-> FALSE,
            pathname |-> IF hasAuthority /\ pathPart = <<>> THEN <<"/">> ELSE pathPart]

IsIdAt(s, p) ==
  p + 1 <= Len(s) /\ LowerChar(s[p]) = "i" /\ LowerChar(s[p + 1]) = "d"

\* the digits matched by /id(\d{6,})(?:\/|$)/i preceded by '/' at position p
PathMatchAt(s, p) ==
  LET last == DigitRunEnd(s, p + 3)
  IN  IF s[p] = "/" /\ IsIdAt(s, p + 1)
         /\ last - (p + 3) + 1 >= APP_ID_MIN_LENGTH
         /\ (last = Len(s) \/ s[last + 1] = "/")
      THEN SubSeq(s, p + 3, last)
      ELSE Null

\* the digits matched by /\bid(\d{6,})\b/i at position p
EmbeddedMatchAt(s, p) ==
  LET last == DigitRunEnd(s, p + 2)
  IN  IF IsIdAt(s, p)
         /\ (p = 1 \/ s[p - 1] \notin WordChars)
         /\ last - (p + 2) + 1 >= APP_ID_MIN_LENGTH
         /\ (last = Len(s) \/ s[last + 1] \notin WordChars)
      THEN SubSeq(s, p + 2, last)
      ELSE Null

\* parseAppInput searching the whole text before the URL path
parseAppInputEmbeddedFirst(value) ==
  LET Locate(trimmed) ==
        LET prefixed == IsIdAt(trimmed, 1)
                        /\ Len(trimmed) - 2 >= APP_ID_MIN_LENGTH
                        /\ AllDigits(SubSeq(trimmed, 3, Len(trimmed)))
            raw == Len(trimmed) >= APP_ID_MIN_LENGTH /\ AllDigits(trimmed)
            parsed == parseURL(trimmed)
            pathHits == { p \in 1..Len(parsed.pathname) : PathMatchAt(parsed.pathname, p) # Null }
            embeddedHits == { p \in 1..Len(trimmed) : EmbeddedMatchAt(trimmed, p) # Null }
            first(S) == CHOOSE p \in S : \A q \in S : p <= q
        IN  IF trimmed = <<>> THEN Null
            ELSE IF prefixed THEN SubSeq(trimmed, 3, Len(trimmed))
            ELSE IF raw THEN trimmed
            ELSE IF embeddedHits # {} THEN EmbeddedMatchAt(trimmed, first(embeddedHits))
            ELSE IF ~parsed.threw /\ pathHits # {}
            THEN PathMatchAt(parsed.pathname, first(pathHits))
            ELSE Null
  IN  Locate(trim(StringOrEmpty(value)))

\* parseAppInput: Null, or the appId of the { appId } it returns
parseAppInput(value) ==
  LET Locate(trimmed) ==
        LET prefixed == IsIdAt(trimmed, 1)
                        /\ Len(trimmed) - 2 >= APP_ID_MIN_LENGTH
                        /\ AllDigits(SubSeq(trimmed, 3, Len(trimmed)))
            raw == Len(trimmed) >= APP_ID_MIN_LENGTH /\ AllDigits(trimmed)
            parsed == parseURL(trimmed)
            pathHits == { p \in 1..Len(parsed.pathname) : PathMatchAt(parsed.pathname, p) # Null }
            embeddedHits == { p \in 1..Len(trimmed) : EmbeddedMatchAt(trimmed, p) # Null }
            first(S) == CHOOSE p \in S : \A q \in S : p <= q
        IN  IF trimmed = <<>> THEN Null
            ELSE IF prefixed THEN SubSeq(trimmed, 3, Len(trimmed))
            ELSE IF raw THEN trimmed
            ELSE IF ~parsed.threw /\ pathHits # {}
            THEN PathMatchAt(parsed.pathname, first(pathHits))
            ELSE IF embeddedHits # {} THEN EmbeddedMatchAt(trimmed, first(embeddedHits))
            ELSE Null
  IN  Locate(trim(StringOrEmpty(value)))

\* Option names
OPT_APP == <<"-", "-", "a", "p", "p">>
OPT_JSON == <<"-", "-", "j", "s", "o", "n">>
OPT_REGION == <<"-", "-", "r", "e", "g", "i", "o", "n">>
OPT_REGIONS == <<"-", "-", "r", "e", "g", "i", "o", "n", "s">>
OPT_PLATFORM == <<"-", "-", "p", "l", "a", "t", "f", "o", "r", "m">>
OPT_PERIOD == <<"-", "-", "p", "e", "r", "i", "o", "d">>
OPT_PAGE == <<"-", "-", "p", "a", "g", "e">>
OPT_SORT == <<"-", "-", "s", "o", "r", "t">>
OPT_ORDER == <<"-", "-", "o", "r", "d", "e", "r">>
OPT_RELATED == <<"-", "-", "r", "e", "l", "a", "t", "e", "d">>
OPT_ID == <<"-", "-", "i", "d">>
OPT_NAME == <<"-", "-", "n", "a", "m", "e">>
OPT_TEXT == <<"-", "-", "t", "e", "x", "t">>
OPT_DATE == <<"-", "-", "d", "a", "t", "e">>
OPT_NO_OPEN == <<"-", "-", "n", "o", "-", "o", "p", "e", "n">>

\* consumeAppId leaving the first argument in place when it is the app
consumeAppIdKeepFirst(rest, required) ==
  LET opt == takeOption(rest, OPT_APP)
      given == opt.value # Null /\ opt.value # <<>>
      Consume(fromOption, fromFirst) ==
        LET appId == IF given THEN fromOption ELSE fromFirst
        IN  IF opt.threw
            THEN [err |-> "Missing value for", arg |-> OPT_APP, appId |-> Null, rest |-> rest]
            ELSE IF given /\ fromOption = Null
            THEN [err |-> "Invalid --app value. Use an App Store URL, id-prefixed value, or numeric id.",
                  arg |-> OPT_APP, appId |-> Null, rest |-> opt.rest]
            ELSE IF appId = Null /\ required
            THEN [err |-> "Provide an app via --app <APP_ID_OR_URL>", arg |-> OPT_APP,
                  appId |-> Null, rest |-> opt.rest]
            ELSE [err |-> "", arg |-> <<>>, appId |-> appId, rest |-> opt.rest]
  IN  Consume(parseAppInput(opt.value),
              IF opt.rest # <<>> THEN parseAppInput(opt.rest[1]) ELSE Null)

\* consumeAppId(rest, { required }): err is "" or the message thrown
consumeAppId(rest, required) ==
  LET opt == takeOption(rest, OPT_APP)
      \* a truthy option value: neither null nor ''
      given == opt.value # Null /\ opt.value # <<>>
      Consume(fromOption, fromFirst) ==
        LET appId == IF given THEN fromOption ELSE fromFirst
            rest2 == IF ~given /\ fromFirst # Null THEN Tail(opt.rest) ELSE opt.rest
        IN  IF opt.threw
            THEN [err |-> "Missing value for", arg |-> OPT_APP, appId |-> Null, rest |-> rest]
            ELSE IF given /\ fromOption = Null
            THEN [err |-> "Invalid --app value. Use an App Store URL, id-prefixed value, or numeric id.",
                  arg |-> OPT_APP, appId |-> Null, rest |-> opt.rest]
            ELSE IF appId = Null /\ required
            THEN [err |-> "Provide an app via --app <APP_ID_OR_URL>", arg |-> OPT_APP,
                  appId |-> Null, rest |-> rest2]
            ELSE [err |-> "", arg |-> <<>>, appId |-> appId, rest |-> rest2]
  IN  Consume(parseAppInput(opt.value),
              IF opt.rest # <<>> THEN parseAppInput(opt.rest[1]) ELSE Null)

\* consumeTrackedKeywordsAppTarget(rest)
consumeTrackedKeywordsAppTarget(rest) ==
  LET opt == takeOption(rest, OPT_APP)
      given == opt.value # Null /\ opt.value # <<>>
      first == IF opt.rest # <<>> THEN trim(StringOrEmpty(opt.rest[1])) ELSE <<>>
      shifted == ~given /\ first # <<>> /\ ~startsWith(first, <<"-", "-">>)
      identifier == IF given THEN trim(opt.value)
                    ELSE IF shifted THEN first ELSE <<>>
      rest2 == IF shifted THEN Tail(opt.rest) ELSE opt.rest
      Resolve(parsedApp, plannedId) ==
        LET none == [err |-> "", arg |-> <<>>, appIdentifier |-> Null, appId |-> Null,
                     plannedTrackedAppId |-> Null, rest |-> rest2]
        IN  IF opt.threw THEN [none EXCEPT !.err = "Missing value for", !.arg = OPT_APP]
            ELSE IF identifier = <<>>
            THEN [none EXCEPT !.err = "Provide an app via --app <APP_ID_OR_URL_OR_PLANNED_ID>"]
            ELSE IF parsedApp # Null
            THEN [none EXCEPT !.appIdentifier = parsedApp, !.appId = parsedApp]
            ELSE IF plannedId # Null
            THEN [none EXCEPT !.appIdentifier = plannedId, !.plannedTrackedAppId = plannedId]
            ELSE [none EXCEPT !.err = "Invalid --app value. Use an App Store URL/id or a planned app id."]
  IN  Resolve(parseAppInput(identifier), normalizePlannedTrackedAppId(identifier))

\* ------------------------------------------------------------------------
\* Keywords, dates
\* ------------------------------------------------------------------------

RECURSIVE StripLeadingQuotes(_)
StripLeadingQuotes(s) ==
  IF s # <<>> /\ Head(s) \in QuoteChars THEN StripLeadingQuotes(Tail(s)) ELSE s

RECURSIVE StripTrailingQuotes(_)
StripTrailingQuotes(s) ==
  IF s # <<>> /\ s[Len(s)] \in QuoteChars
  THEN StripTrailingQuotes(SubSeq(s, 1, Len(s) - 1))
  ELSE s

\* one item of normalizeKeywordArgs: trim, strip the quotes at both ends,
\* collapse white space runs to one space, trim
normalizeKeyword(value) ==
  LET trimmed == trim(StringOrEmpty(value))
      unquoted == StripTrailingQuotes(StripLeadingQuotes(trimmed))
  IN  trim(ReplaceSpaceRuns(unquoted, <<" ">>, FALSE))

\* normalizeKeywordArgs keeping the items that are empty once normalized
normalizeKeywordArgsUnfiltered(rest) == [i \in 1..Len(rest) |-> normalizeKeyword(rest[i])]

\* normalizeKeywordArgs keeping the first occurrence of each keyword only
normalizeKeywordArgsDeduplicated(rest) ==
  LET list == [i \in 1..Len(rest) |-> normalizeKeyword(rest[i])]
      firsts == { k \in 1..Len(list) :
                    Len(list[k]) > 0 /\ \A m \in 1..(k - 1) : list[m] # list[k] }
  IN  [j \in 1..Cardinality(firsts) |->
         list[CHOOSE k \in firsts : Cardinality({ m \in firsts : m <= k }) = j]]

\* normalizeKeywordArgs: each item normalized, the empty results dropped
normalizeKeywordArgs(rest) ==
  SelectSeq([i \in 1..Len(rest) |-> normalizeKeyword(rest[i])], LAMBDA v : Len(v) > 0)

\* normalizeDateOnly: Null or the trimmed text.  The date is parsed by the
\* JavaScript engine node runs on (V8), whose ISO parser accepts months 1..12
\* and days 1..31 whatever the month, and rolls a day past the month's end
\* over into the next month.
normalizeDateOnly(value) ==
  LET normalized == trim(StringOrEmpty(value))
      shaped == Len(normalized) = 10
                /\ \A i \in {1, 2, 3, 4, 6, 7, 9, 10} : normalized[i] \in DigitChars
                /\ normalized[5] = "-" /\ normalized[8] = "-"
      month == DigitsValue(SubSeq(normalized, 6, 7), 0)
      day == DigitsValue(SubSeq(normalized, 9, 10), 0)
  IN  IF ~shaped THEN Null
      ELSE IF ~(month \in 1..12 /\ day \in 1..31) THEN Null
      ELSE normalized

\* ------------------------------------------------------------------------
\* Option resolvers: err is "" or the message thrown
\* ------------------------------------------------------------------------

\* Messages (the back quotes of the source around asosuite login are left out)
MSG_PLATFORM == "Invalid --platform value. Supported values: iphone, ipad, mac, appletv, watch, vision"
MSG_REGION == "Invalid --region value. Use a 2-letter region code."
MSG_PAGE == "Invalid --page value. Use an integer between 1 and 1000."
MSG_SORT == "Invalid --sort value. Supported values: keyword, relevance, popularity, difficulty, position, lastUpdate"
MSG_ORDER == "Invalid --order value. Supported values: asc, desc"
MSG_PERIOD == "Invalid --period value. Allowed values: 7, 30, 90"
MSG_UNKNOWN_ARGS == "Unknown arguments:"
MSG_MISSING_VALUE == "Missing value for"
MSG_NOT_AUTHENTICATED == "Not authenticated. Run asosuite login first."
MSG_NO_KEYWORD == "Provide at least one keyword"
MSG_TOO_MANY_KEYWORDS == "At most 50 keywords are allowed per request"
MSG_TOO_MANY_TRACKED == "At most 200 keywords are allowed per request"

resolvePlatformArg(value) ==
  LET platform == IF value = Null THEN DEFAULT_PLATFORM ELSE normalizePlatform(value)
  IN  IF platform = Null THEN [err |-> MSG_PLATFORM, value |-> Null]
      ELSE [err |-> "", value |-> platform]

resolveRegionArg(value) ==
  LET region == IF value = Null THEN DEFAULT_REGION ELSE normalizeRegionCode(value)
  IN  IF region = Null THEN [err |-> MSG_REGION, value |-> Null]
      ELSE [err |-> "", value |-> region]

resolveOptionalRegionArg(value) ==
  IF value = Null THEN [err |-> "", value |-> Null]
  ELSE LET region == normalizeRegionCode(value)
       IN  IF region = Null THEN [err |-> MSG_REGION, value |-> Null]
           ELSE [err |-> "", value |-> region]

\* the page is a number; value 1 when the option is absent
resolveTrackedKeywordsPageArg(value) ==
  IF value = Null THEN [err |-> "", value |-> 1]
  ELSE LET parsed == parseInt(value)
       IN  IF parsed.nan \/ parsed.n < 1 \/ parsed.n > TRACKED_KEYWORDS_MAX_PAGE
           THEN [err |-> MSG_PAGE, value |-> 0]
           ELSE [err |-> "", value |-> parsed.n]

resolveTrackedKeywordsSortArg(value) ==
  IF value = Null THEN [err |-> "", value |-> TRACKED_KEYWORDS_SORT_DEFAULT]
  ELSE LET normalized == toLowerCase(trim(value))
           canonical == IF normalized = <<"l", "a", "s", "t", "u", "p", "d", "a", "t", "e">>
                        THEN <<"l", "a", "s", "t", "U", "p", "d", "a", "t", "e">>
                        ELSE normalized
       IN  IF canonical \notin TRACKED_KEYWORDS_SORT_FIELDS
           THEN [err |-> MSG_SORT, value |-> Null]
           ELSE [err |-> "", value |-> canonical]

resolveTrackedKeywordsOrderArg(value) ==
  IF value = Null THEN [err |-> "", value |-> TRACKED_KEYWORDS_ORDER_DEFAULT]
  ELSE LET normalized == toLowerCase(trim(value))
       IN  IF normalized \notin TRACKED_KEYWORDS_ORDER_VALUES
           THEN [err |-> MSG_ORDER, value |-> Null]
           ELSE [err |-> "", value |-> normalized]

\* ------------------------------------------------------------------------
\* Credential file
\* ------------------------------------------------------------------------

\* The parsed content of the credential file: the two fields the program
\* reads or writes, and whether the object holds any other field.
EmptyConfig == [accessToken |-> Null, expiresAt |-> Null, other |-> FALSE]

\* getAccessToken without the trim
getAccessTokenUntrimmed(config) ==
  LET token == StringOrEmpty(config.accessToken)
  IN  IF token = <<>> THEN Null ELSE token

\* getAccessToken(config): Null or the trimmed token
getAccessToken(config) ==
  LET token == trim(StringOrEmpty(config.accessToken))
  IN  IF token = <<>> THEN Null ELSE token

\* ------------------------------------------------------------------------
\* Errors, requests and handler results
\* ------------------------------------------------------------------------

\* What Number(error?.status || 0) reads from an error that has no status
NO_STATUS == 0

\* error.payload: null, or the parsed JSON value of an error response
NoPayload ==
  [isObject |-> FALSE, type |-> "null", errorIsString |-> FALSE, error |-> "",
   subscribeUrl |-> Null, retryAfterSeconds |-> Absent]

\* new Error(message): message is the fixed text, arg the interpolated part
Thrown(message, arg) ==
  [status |-> NO_STATUS, message |-> message, arg |-> arg, payload |-> NoPayload]

NoError == Thrown("", <<>>)

\* The arguments of one apiRequest call.  path is the path with the app and
\* platform segments and the query string kept in their own fields; a field
\* the request does not carry is Null (0 for numbers, <<>> for lists).
NoRequest ==
  [path |-> "", method |-> "", accessToken |-> Null, hasBody |-> FALSE,
   app |-> Null, platform |-> Null, region |-> Null, regions |-> <<>>,
   period |-> 0, keywords |-> <<>>, appId |-> Null, plannedTrackedAppId |-> Null,
   relatedAppId |-> Null, name |-> Null, text |-> Null, date |-> Null,
   query |-> Null, eventId |-> 0, page |-> 0, sort |-> Null, order |-> Null,
   deviceCode |-> Null]

\* What a handler does up to its first await of the network: it throws
\* (error), issues a request (request), or finishes locally (local; save
\* tells whether it wrote the credential file, with config as content).
Fail(message, arg) ==
  [kind |-> "error", error |-> Thrown(message, arg), req |-> NoRequest,
   save |-> FALSE, config |-> EmptyConfig]
Send(req) ==
  [kind |-> "request", error |-> NoError, req |-> req, save |-> FALSE,
   config |-> EmptyConfig]
Local(save) ==
  [kind |-> "local", error |-> NoError, req |-> NoRequest, save |-> save,
   config |-> EmptyConfig]

\* rest.join(' ')
RECURSIVE join(_)
join(rest) ==
  IF rest = <<>> THEN <<>>
  ELSE IF Len(rest) = 1 THEN rest[1]
  ELSE LET half == Len(rest) \div 2
       IN  join(SubSeq(rest, 1, half)) \o <<" ">> \o join(SubSeq(rest, half + 1, Len(rest)))

\* takeOption for each name of names in turn, stopping at the first throw
RECURSIVE takeOptions(_, _)
takeOptions(rest, names) ==
  IF names = <<>> THEN [threw |-> FALSE, arg |-> <<>>, values |-> <<>>, rest |-> rest]
  ELSE LET t == takeOption(rest, Head(names))
       IN  IF t.threw
           THEN [threw |-> TRUE, arg |-> Head(names), values |-> <<>>, rest |-> rest]
           ELSE LET more == takeOptions(t.rest, Tail(names))
                IN  [more EXCEPT !.values = <<t.value>> \o more.values]

\* requireAuthenticatedAccessToken returning the stored text as it is
requireAuthenticatedAccessTokenStored(config) ==
  IF getAccessToken(config) = Null THEN Null ELSE config.accessToken

\* requireAuthenticatedAccessToken(config): Null stands for the throw
requireAuthenticatedAccessToken(config) == getAccessToken(config)

\* ------------------------------------------------------------------------
\* Handlers without an app target
\* ------------------------------------------------------------------------

runSubscriptionStatus(rest0, config) ==
  LET rest == takeFlag(rest0, OPT_JSON).rest
      accessToken == requireAuthenticatedAccessToken(config)
  IN  IF Len(rest) > 0 THEN Fail(MSG_UNKNOWN_ARGS, join(rest))
      ELSE IF accessToken = Null THEN Fail(MSG_NOT_AUTHENTICATED, <<>>)
      ELSE Send([NoRequest EXCEPT !.path = "/api/cli/subscription", !.method = "GET",
                                  !.accessToken = accessToken])

runListApps(rest0, config) ==
  LET rest == takeFlag(rest0, OPT_JSON).rest
      accessToken == requireAuthenticatedAccessToken(config)
  IN  IF Len(rest) > 0 THEN Fail(MSG_UNKNOWN_ARGS, join(rest))
      ELSE IF accessToken = Null THEN Fail(MSG_NOT_AUTHENTICATED, <<>>)
      ELSE Send([NoRequest EXCEPT !.path = "/api/cli/apps/list", !.method = "GET",
                                  !.accessToken = accessToken])

runAuthLogout(rest, config) == [Local(TRUE) EXCEPT !.config = EmptyConfig]

runKeywordMetrics(rest0, config) ==
  LET opts == takeOptions(takeFlag(rest0, OPT_JSON).rest, <<OPT_REGION, OPT_PLATFORM>>)
      regionValue == opts.values[1]
      platformValue == opts.values[2]
      Handle(app) ==
        LET keywords == normalizeKeywordArgs(app.rest)
            accessToken == requireAuthenticatedAccessToken(config)
            region == toUpperCase(trim(IF regionValue = Null THEN DEFAULT_REGION ELSE regionValue))
            platform == IF platformValue = Null THEN DEFAULT_PLATFORM
                        ELSE normalizePlatform(platformValue)
        IN  IF opts.threw THEN Fail(MSG_MISSING_VALUE, opts.arg)
            ELSE IF app.err # "" THEN Fail(app.err, app.arg)
            ELSE IF Len(keywords) = 0 THEN Fail(MSG_NO_KEYWORD, <<>>)
            ELSE IF Len(keywords) > MAX_KEYWORDS THEN Fail(MSG_TOO_MANY_KEYWORDS, <<>>)
            ELSE IF accessToken = Null THEN Fail(MSG_NOT_AUTHENTICATED, <<>>)
            ELSE IF platform = Null THEN Fail(MSG_PLATFORM, <<>>)
            ELSE Send([NoRequest EXCEPT !.path = "/api/cli/keywords/metrics", !.method = "POST",
                                        !.accessToken = accessToken, !.hasBody = TRUE,
                                        !.region = region, !.keywords = keywords,
                                        !.appId = app.appId, !.platform = platform])
  IN  Handle(consumeAppId(opts.rest, FALSE))

runSearchApps(rest0, config) ==
  LET opts == takeOptions(takeFlag(rest0, OPT_JSON).rest, <<OPT_PLATFORM, OPT_REGION>>)
      platformValue == opts.values[1]
      regionValue == opts.values[2]
      rest == opts.rest
      unknownFlags == SelectSeq(rest, LAMBDA v : startsWith(v, <<"-", "-">>))
      words == SelectSeq([i \in 1..Len(rest) |-> trim(rest[i])], LAMBDA v : Len(v) > 0)
      query == trim(ReplaceSpaceRuns(join(words), <<" ">>, FALSE))
      accessToken == requireAuthenticatedAccessToken(config)
      platform == resolvePlatformArg(platformValue)
      region == resolveRegionArg(regionValue)
  IN  IF opts.threw THEN Fail(MSG_MISSING_VALUE, opts.arg)
      ELSE IF Len(unknownFlags) > 0 THEN Fail(MSG_UNKNOWN_ARGS, join(unknownFlags))
      ELSE IF query = <<>> THEN Fail("Provide a search query", <<>>)
      ELSE IF accessToken = Null THEN Fail(MSG_NOT_AUTHENTICATED, <<>>)
      ELSE IF platform.err # "" THEN Fail(platform.err, <<>>)
      ELSE IF region.err # "" THEN Fail(region.err, <<>>)
      ELSE Send([NoRequest EXCEPT !.path = "/api/cli/apps/search", !.method = "POST",
                                  !.accessToken = accessToken, !.hasBody = TRUE,
                                  !.query = query, !.platform = platform.value,
                                  !.region = region.value])

\* plan-app and unplan-app
runPlanApp(rest0, config) ==
  LET opts == takeOptions(takeFlag(rest0, OPT_JSON).rest,
                          <<OPT_NAME, OPT_ID, OPT_PLATFORM, OPT_REGION>>)
      name == trim(StringOrEmpty(opts.values[1]))
      plannedTrackedAppIdValue == opts.values[2]
      plannedTrackedAppId == normalizePlannedTrackedAppId(plannedTrackedAppIdValue)
      accessToken == requireAuthenticatedAccessToken(config)
      platform == resolvePlatformArg(opts.values[3])
      region == resolveRegionArg(opts.values[4])
  IN  IF opts.threw THEN Fail(MSG_MISSING_VALUE, opts.arg)
      ELSE IF Len(opts.rest) > 0 THEN Fail(MSG_UNKNOWN_ARGS, join(opts.rest))
      ELSE IF name = <<>> THEN Fail("Provide a name via --name <APP_NAME>", <<>>)
      ELSE IF plannedTrackedAppIdValue # Null /\ plannedTrackedAppId = Null
      THEN Fail("Invalid --id value. Planned app ids must be 1-64 chars.", <<>>)
      ELSE IF accessToken = Null THEN Fail(MSG_NOT_AUTHENTICATED, <<>>)
      ELSE IF platform.err # "" THEN Fail(platform.err, <<>>)
      ELSE IF region.err # "" THEN Fail(region.err, <<>>)
      ELSE Send([NoRequest EXCEPT !.path = "/api/cli/apps/planned", !.method = "POST",
                                  !.accessToken = accessToken, !.hasBody = TRUE,
                                  !.name = name, !.platform = platform.value,
                                  !.region = region.value,
                                  !.plannedTrackedAppId = plannedTrackedAppId])

runUnplanApp(rest0, config) ==
  LET opts == takeOptions(takeFlag(rest0, OPT_JSON).rest,
                          <<OPT_ID, OPT_PLATFORM, OPT_REGION>>)
      plannedTrackedAppId == normalizePlannedTrackedAppId(opts.values[1])
      accessToken == requireAuthenticatedAccessToken(config)
      platform == resolvePlatformArg(opts.values[2])
      region == resolveRegionArg(opts.values[3])
  IN  IF opts.threw THEN Fail(MSG_MISSING_VALUE, opts.arg)
      ELSE IF Len(opts.rest) > 0 THEN Fail(MSG_UNKNOWN_ARGS, join(opts.rest))
      ELSE IF plannedTrackedAppId = Null
      THEN Fail("Provide a planned app id via --id <PLANNED_APP_ID>", <<>>)
      ELSE IF accessToken = Null THEN Fail(MSG_NOT_AUTHENTICATED, <<>>)
      ELSE IF platform.err # "" THEN Fail(platform.err, <<>>)
      ELSE IF region.err # "" THEN Fail(region.err, <<>>)
      ELSE Send([NoRequest EXCEPT !.path = "/api/cli/apps/planned", !.method = "DELETE",
                                  !.accessToken = accessToken, !.hasBody = TRUE,
                                  !.plannedTrackedAppId = plannedTrackedAppId,
                                  !.platform = platform.value, !.region = region.value])

\* ------------------------------------------------------------------------
\* Handlers with an app target
\* ------------------------------------------------------------------------

\* runTrackApp (method POST) and runUntrackApp (method DELETE)
TrackOrUntrack(rest0, config, method) ==
  LET opts == takeOptions(takeFlag(rest0, OPT_JSON).rest, <<OPT_PLATFORM, OPT_REGION>>)
      Handle(app) ==
        LET accessToken == requireAuthenticatedAccessToken(config)
            platform == resolvePlatformArg(opts.values[1])
            region == resolveRegionArg(opts.values[2])
        IN  IF opts.threw THEN Fail(MSG_MISSING_VALUE, opts.arg)
            ELSE IF app.err # "" THEN Fail(app.err, app.arg)
            ELSE IF Len(app.rest) > 0 THEN Fail(MSG_UNKNOWN_ARGS, join(app.rest))
            ELSE IF accessToken = Null THEN Fail(MSG_NOT_AUTHENTICATED, <<>>)
            ELSE IF platform.err # "" THEN Fail(platform.err, <<>>)
            ELSE IF region.err # "" THEN Fail(region.err, <<>>)
            ELSE Send([NoRequest EXCEPT !.path = "/api/cli/apps/track", !.method = method,
                                        !.accessToken = accessToken, !.hasBody = TRUE,
                                        !.appId = app.appId, !.platform = platform.value,
                                        !.region = region.value])
  IN  Handle(consumeAppId(opts.rest, TRUE))

runTrackApp(rest, config) == TrackOrUntrack(rest, config, "POST")
runUntrackApp(rest, config) == TrackOrUntrack(rest, config, "DELETE")

\* parseRequiredAppId(value, optionName): Null stands for the throw
parseRequiredAppId(value) == parseAppInput(value)

MSG_RELATED_REQUIRED == "Provide a related app via --related <APP_ID_OR_URL>"
MSG_RELATED_INVALID == "Invalid --related value. Use an App Store URL, id-prefixed value, or numeric id."
MSG_APP_INVALID == "Invalid --app value. Use an App Store URL, id-prefixed value, or numeric id."
PATH_RELATED == "/api/cli/apps/{appId}/{platform}/related-apps"

runRelatedAppsList(rest0, config) ==
  LET opts == takeOptions(takeFlag(rest0, OPT_JSON).rest, <<OPT_PLATFORM>>)
      Handle(app) ==
        LET accessToken == requireAuthenticatedAccessToken(config)
            platform == resolvePlatformArg(opts.values[1])
        IN  IF opts.threw THEN Fail(MSG_MISSING_VALUE, opts.arg)
            ELSE IF app.err # "" THEN Fail(app.err, app.arg)
            ELSE IF Len(app.rest) > 0 THEN Fail(MSG_UNKNOWN_ARGS, join(app.rest))
            ELSE IF accessToken = Null THEN Fail(MSG_NOT_AUTHENTICATED, <<>>)
            ELSE IF platform.err # "" THEN Fail(platform.err, <<>>)
            ELSE Send([NoRequest EXCEPT !.path = PATH_RELATED, !.method = "GET",
                                        !.accessToken = accessToken, !.app = app.appId,
                                        !.platform = platform.value])
  IN  Handle(consumeAppId(opts.rest, TRUE))

runRelatedAppsAdd(rest0, config) ==
  LET opts == takeOptions(takeFlag(rest0, OPT_JSON).rest,
                          <<OPT_RELATED, OPT_PLATFORM, OPT_REGION>>)
      relatedValue == opts.values[1]
      Handle(app, relatedAppId) ==
        LET accessToken == requireAuthenticatedAccessToken(config)
            platform == resolvePlatformArg(opts.values[2])
            region == resolveOptionalRegionArg(opts.values[3])
        IN  IF opts.threw THEN Fail(MSG_MISSING_VALUE, opts.arg)
            ELSE IF app.err # "" THEN Fail(app.err, app.arg)
            ELSE IF relatedValue = Null \/ relatedValue = <<>> THEN Fail(MSG_RELATED_REQUIRED, <<>>)
            ELSE IF Len(app.rest) > 0 THEN Fail(MSG_UNKNOWN_ARGS, join(app.rest))
            ELSE IF relatedAppId = Null THEN Fail(MSG_RELATED_INVALID, <<>>)
            ELSE IF accessToken = Null THEN Fail(MSG_NOT_AUTHENTICATED, <<>>)
            ELSE IF platform.err # "" THEN Fail(platform.err, <<>>)
            ELSE IF region.err # "" THEN Fail(region.err, <<>>)
            ELSE Send([NoRequest EXCEPT !.path = PATH_RELATED, !.method = "POST",
                                        !.accessToken = accessToken, !.hasBody = TRUE,
                                        !.app = app.appId, !.platform = platform.value,
                                        !.relatedAppId = relatedAppId, !.region = region.value])
  IN  Handle(consumeAppId(opts.rest, TRUE), parseRequiredAppId(relatedValue))

runRelatedAppsRemove(rest0, config) ==
  LET opts == takeOptions(takeFlag(rest0, OPT_JSON).rest, <<OPT_RELATED, OPT_PLATFORM>>)
      relatedValue == opts.values[1]
      Handle(app, relatedAppId) ==
        LET accessToken == requireAuthenticatedAccessToken(config)
            platform == resolvePlatformArg(opts.values[2])
        IN  IF opts.threw THEN Fail(MSG_MISSING_VALUE, opts.arg)
            ELSE IF app.err # "" THEN Fail(app.err, app.arg)
            ELSE IF relatedValue = Null \/ relatedValue = <<>> THEN Fail(MSG_RELATED_REQUIRED, <<>>)
            ELSE IF Len(app.rest) > 0 THEN Fail(MSG_UNKNOWN_ARGS, join(app.rest))
            ELSE IF relatedAppId = Null THEN Fail(MSG_RELATED_INVALID, <<>>)
            ELSE IF accessToken = Null THEN Fail(MSG_NOT_AUTHENTICATED, <<>>)
            ELSE IF platform.err # "" THEN Fail(platform.err, <<>>)
            ELSE Send([NoRequest EXCEPT !.path = PATH_RELATED, !.method = "DELETE",
                                        !.accessToken = accessToken, !.hasBody = TRUE,
                                        !.app = app.appId, !.platform = platform.value,
                                        !.relatedAppId = relatedAppId])
  IN  Handle(consumeAppId(opts.rest, TRUE), parseRequiredAppId(relatedValue))

\* the subcommand of related-apps, events and tracked-keywords:
\* String(rest.shift() || '').trim().toLowerCase()
Subcommand(rest) == IF rest = <<>> THEN <<>> ELSE toLowerCase(trim(rest[1]))
Shifted(rest) == IF rest = <<>> THEN rest ELSE Tail(rest)

SUB_LIST == <<"l", "i", "s", "t">>
SUB_ADD == <<"a", "d", "d">>
SUB_REMOVE == <<"r", "e", "m", "o", "v", "e">>
SUB_DELETE == <<"d", "e", "l", "e", "t", "e">>

runRelatedApps(rest, config) ==
  LET subcommand == Subcommand(rest)
  IN  IF subcommand = <<>>
      THEN Fail("Provide a subcommand: related-apps <list|add|remove> ...", <<>>)
      ELSE IF subcommand = SUB_LIST THEN runRelatedAppsList(Shifted(rest), config)
      ELSE IF subcommand = SUB_ADD THEN runRelatedAppsAdd(Shifted(rest), config)
      ELSE IF subcommand = SUB_REMOVE THEN runRelatedAppsRemove(Shifted(rest), config)
      ELSE Fail("Unknown related-apps subcommand", subcommand)

\* ------------------------------------------------------------------------
\* Events
\* ------------------------------------------------------------------------

\* toLocalDateOnly(): the local date of the run
LocalToday == <<"2", "0", "2", "6", "-", "1", "1", "-", "0", "2">>

runEventsList(rest0, config) ==
  LET opts == takeOptions(takeFlag(rest0, OPT_JSON).rest, <<OPT_APP>>)
      appOptionValue == opts.values[1]
      given == appOptionValue # Null /\ appOptionValue # <<>>
      accessToken == requireAuthenticatedAccessToken(config)
      Handle(appId) ==
        IF opts.threw THEN Fail(MSG_MISSING_VALUE, opts.arg)
        ELSE IF Len(opts.rest) > 0 THEN Fail(MSG_UNKNOWN_ARGS, join(opts.rest))
        ELSE IF accessToken = Null THEN Fail(MSG_NOT_AUTHENTICATED, <<>>)
        ELSE IF given /\ appId = Null THEN Fail(MSG_APP_INVALID, <<>>)
        ELSE Send([NoRequest EXCEPT !.path = "/api/cli/events", !.method = "GET",
                                    !.accessToken = accessToken, !.appId = appId])
  IN  Handle(IF given THEN parseRequiredAppId(appOptionValue) ELSE Null)

runEventsAdd(rest0, config) ==
  LET opts == takeOptions(takeFlag(rest0, OPT_JSON).rest, <<OPT_TEXT, OPT_DATE, OPT_APP>>)
      text == trim(StringOrEmpty(opts.values[1]))
      dateValue == opts.values[2]
      appOptionValue == opts.values[3]
      given == appOptionValue # Null /\ appOptionValue # <<>>
      date == IF dateValue = Null THEN LocalToday ELSE normalizeDateOnly(dateValue)
      Handle(appId) ==
        LET accessToken == requireAuthenticatedAccessToken(config)
        IN  IF opts.threw THEN Fail(MSG_MISSING_VALUE, opts.arg)
            ELSE IF Len(opts.rest) > 0 THEN Fail(MSG_UNKNOWN_ARGS, join(opts.rest))
            ELSE IF text = <<>> THEN Fail("Provide event text via --text <TEXT>", <<>>)
            ELSE IF date = Null THEN Fail("Invalid --date value. Use YYYY-MM-DD.", <<>>)
            ELSE IF given /\ appId = Null THEN Fail(MSG_APP_INVALID, <<>>)
            ELSE IF accessToken = Null THEN Fail(MSG_NOT_AUTHENTICATED, <<>>)
            ELSE Send([NoRequest EXCEPT !.path = "/api/cli/events", !.method = "POST",
                                        !.accessToken = accessToken, !.hasBody = TRUE,
                                        !.date = date, !.text = text, !.appId = appId])
  IN  Handle(IF given THEN parseRequiredAppId(appOptionValue) ELSE Null)

runEventsDelete(rest0, config) ==
  LET rest == takeFlag(rest0, OPT_JSON).rest
      id == parseInt(trim(rest[1]))
      accessToken == requireAuthenticatedAccessToken(config)
  IN  IF Len(rest) # 1 THEN Fail("Provide an event id: events delete <EVENT_ID>", <<>>)
      ELSE IF id.nan \/ id.n <= 0 THEN Fail("Invalid event id. Use a positive integer.", <<>>)
      ELSE IF accessToken = Null THEN Fail(MSG_NOT_AUTHENTICATED, <<>>)
      ELSE Send([NoRequest EXCEPT !.path = "/api/cli/events/{id}", !.method = "DELETE",
                                  !.accessToken = accessToken, !.eventId = id.n])

runEvents(rest, config) ==
  LET subcommand == Subcommand(rest)
  IN  IF subcommand = <<>>
      THEN Fail("Provide a subcommand: events <list|add|delete> ...", <<>>)
      ELSE IF subcommand = SUB_LIST THEN runEventsList(Shifted(rest), config)
      ELSE IF subcommand = SUB_ADD THEN runEventsAdd(Shifted(rest), config)
      ELSE IF subcommand = SUB_DELETE THEN runEventsDelete(Shifted(rest), config)
      ELSE Fail("Unknown events subcommand", subcommand)

\* ------------------------------------------------------------------------
\* Tracked keywords
\* ------------------------------------------------------------------------

\* runTrackedKeywordsAdd (method POST) and runTrackedKeywordsRemove (DELETE)
TrackedKeywordsAddOrRemove(rest0, config, method) ==
  LET opts == takeOptions(takeFlag(rest0, OPT_JSON).rest, <<OPT_PLATFORM, OPT_REGION>>)
      Handle(target) ==
        LET keywords == normalizeKeywordArgs(target.rest)
            accessToken == requireAuthenticatedAccessToken(config)
            platform == resolvePlatformArg(opts.values[1])
            region == resolveRegionArg(opts.values[2])
            isPlannedTarget == target.appId = Null
        IN  IF opts.threw THEN Fail(MSG_MISSING_VALUE, opts.arg)
            ELSE IF target.err # "" THEN Fail(target.err, target.arg)
            ELSE IF Len(keywords) = 0 THEN Fail(MSG_NO_KEYWORD, <<>>)
            ELSE IF Len(keywords) > MAX_TRACKED_KEYWORDS_ADD THEN Fail(MSG_TOO_MANY_TRACKED, <<>>)
            ELSE IF accessToken = Null THEN Fail(MSG_NOT_AUTHENTICATED, <<>>)
            ELSE IF platform.err # "" THEN Fail(platform.err, <<>>)
            ELSE IF region.err # "" THEN Fail(region.err, <<>>)
            ELSE Send([NoRequest EXCEPT
                         !.path = IF isPlannedTarget THEN "/api/cli/apps/planned/keywords"
                                  ELSE "/api/cli/apps/keywords",
                         !.method = method, !.accessToken = accessToken, !.hasBody = TRUE,
                         !.plannedTrackedAppId = IF isPlannedTarget THEN target.plannedTrackedAppId
                                                 ELSE Null,
                         !.appId = IF isPlannedTarget THEN Null ELSE target.appId,
                         !.platform = platform.value, !.region = region.value,
                         !.keywords = keywords])
  IN  Handle(consumeTrackedKeywordsAppTarget(opts.rest))

runTrackedKeywordsAdd(rest, config) == TrackedKeywordsAddOrRemove(rest, config, "POST")
runTrackedKeywordsRemove(rest, config) == TrackedKeywordsAddOrRemove(rest, config, "DELETE")

runTrackedKeywordsList(rest0, config) ==
  LET opts == takeOptions(takeFlag(rest0, OPT_JSON).rest,
                          <<OPT_PLATFORM, OPT_REGION, OPT_PAGE, OPT_SORT, OPT_ORDER>>)
      Handle(target) ==
        LET accessToken == requireAuthenticatedAccessToken(config)
            platform == resolvePlatformArg(opts.values[1])
            region == resolveOptionalRegionArg(opts.values[2])
            page == resolveTrackedKeywordsPageArg(opts.values[3])
            sort == resolveTrackedKeywordsSortArg(opts.values[4])
            order == resolveTrackedKeywordsOrderArg(opts.values[5])
        IN  IF opts.threw THEN Fail(MSG_MISSING_VALUE, opts.arg)
            ELSE IF target.err # "" THEN Fail(target.err, target.arg)
            ELSE IF Len(target.rest) > 0 THEN Fail(MSG_UNKNOWN_ARGS, join(target.rest))
            ELSE IF accessToken = Null THEN Fail(MSG_NOT_AUTHENTICATED, <<>>)
            ELSE IF platform.err # "" THEN Fail(platform.err, <<>>)
            ELSE IF region.err # "" THEN Fail(region.err, <<>>)
            ELSE IF page.err # "" THEN Fail(page.err, <<>>)
            ELSE IF sort.err # "" THEN Fail(sort.err, <<>>)
            ELSE IF order.err # "" THEN Fail(order.err, <<>>)
            ELSE Send([NoRequest EXCEPT
                         !.path = "/api/cli/apps/{appIdentifier}/{platform}/tracked-keywords",
                         !.method = "GET", !.accessToken = accessToken,
                         !.app = target.appIdentifier, !.platform = platform.value,
                         !.region = region.value, !.page = page.value,
                         !.sort = sort.value, !.order = order.value])
  IN  Handle(consumeTrackedKeywordsAppTarget(opts.rest))

\* runTrackedKeywords taking nothing but list, add and remove for a subcommand
runTrackedKeywordsStrict(rest, config) ==
  LET subcommand == Subcommand(rest)
      shifted == Shifted(rest)
  IN  IF subcommand = <<>> \/ startsWith(subcommand, <<"-", "-">>)
      THEN runTrackedKeywordsList(
             IF subcommand # <<>> THEN <<subcommand>> \o shifted ELSE shifted, config)
      ELSE IF subcommand = SUB_LIST THEN runTrackedKeywordsList(shifted, config)
      ELSE IF subcommand = SUB_ADD THEN runTrackedKeywordsAdd(shifted, config)
      ELSE IF subcommand = SUB_REMOVE THEN runTrackedKeywordsRemove(shifted, config)
      ELSE Fail("Unknown tracked-keywords subcommand", subcommand)

runTrackedKeywords(rest, config) ==
  LET subcommand == Subcommand(rest)
      shifted == Shifted(rest)
  IN  IF subcommand = <<>> \/ startsWith(subcommand, <<"-", "-">>)
      THEN runTrackedKeywordsList(
             IF subcommand # <<>> THEN <<subcommand>> \o shifted ELSE shifted, config)
      ELSE IF subcommand = SUB_LIST THEN runTrackedKeywordsList(shifted, config)
      ELSE IF subcommand = SUB_ADD THEN runTrackedKeywordsAdd(shifted, config)
      ELSE IF subcommand = SUB_REMOVE THEN runTrackedKeywordsRemove(shifted, config)
      ELSE IF parseAppInput(subcommand) # Null
              \/ normalizePlannedTrackedAppId(subcommand) # Null
      THEN runTrackedKeywordsList(<<subcommand>> \o shifted, config)
      ELSE Fail("Unknown tracked-keywords subcommand", subcommand)

\* ------------------------------------------------------------------------
\* Charts, features, ratings
\* ------------------------------------------------------------------------

runRankings(rest0, config) ==
  LET opts == takeOptions(takeFlag(rest0, OPT_JSON).rest,
                          <<OPT_PLATFORM, OPT_PERIOD, OPT_REGIONS, OPT_REGION>>)
      periodValue == opts.values[2]
      regionsValue == opts.values[3]
      regionValue == opts.values[4]
      Handle(app) ==
        LET accessToken == requireAuthenticatedAccessToken(config)
            platform == resolvePlatformArg(opts.values[1])
            period == IF periodValue = Null THEN DEFAULT_PERIOD ELSE parsePeriodValue(periodValue)
            fromRegions == parseRegionsOption(regionsValue)
            fromRegion == normalizeRegionCode(regionValue)
            regions == IF regionsValue # Null THEN fromRegions
                       ELSE IF regionValue # Null THEN <<fromRegion>>
                       ELSE <<>>
        IN  IF opts.threw THEN Fail(MSG_MISSING_VALUE, opts.arg)
            ELSE IF app.err # "" THEN Fail(app.err, app.arg)
            ELSE IF Len(app.rest) > 0 THEN Fail(MSG_UNKNOWN_ARGS, join(app.rest))
            ELSE IF regionsValue # Null /\ regionValue # Null
            THEN Fail("Use either --region or --regions, not both", <<>>)
            ELSE IF accessToken = Null THEN Fail(MSG_NOT_AUTHENTICATED, <<>>)
            ELSE IF platform.err # "" THEN Fail(platform.err, <<>>)
            ELSE IF period = 0 THEN Fail(MSG_PERIOD, <<>>)
            ELSE IF regionsValue # Null /\ Len(fromRegions) = 0
            THEN Fail("Invalid --regions value. Use comma-separated region codes.", <<>>)
            ELSE IF regionsValue = Null /\ regionValue # Null /\ fromRegion = Null
            THEN Fail(MSG_REGION, <<>>)
            ELSE Send([NoRequest EXCEPT !.path = "/api/cli/apps/{appId}/{platform}/charts",
                                        !.method = "POST", !.accessToken = accessToken,
                                        !.hasBody = TRUE, !.app = app.appId,
                                        !.platform = platform.value, !.period = period,
                                        !.regions = regions])
  IN  Handle(consumeAppId(opts.rest, TRUE))

runFeatured(rest0, config) ==
  LET opts == takeOptions(takeFlag(rest0, OPT_JSON).rest, <<OPT_PLATFORM>>)
      Handle(app) ==
        LET accessToken == requireAuthenticatedAccessToken(config)
            platform == resolvePlatformArg(opts.values[1])
        IN  IF opts.threw THEN Fail(MSG_MISSING_VALUE, opts.arg)
            ELSE IF app.err # "" THEN Fail(app.err, app.arg)
            ELSE IF Len(app.rest) > 0 THEN Fail(MSG_UNKNOWN_ARGS, join(app.rest))
            ELSE IF accessToken = Null THEN Fail(MSG_NOT_AUTHENTICATED, <<>>)
            ELSE IF platform.err # "" THEN Fail(platform.err, <<>>)
            ELSE Send([NoRequest EXCEPT !.path = "/api/cli/apps/{appId}/{platform}/features",
                                        !.method = "GET", !.accessToken = accessToken,
                                        !.app = app.appId, !.platform = platform.value])
  IN  Handle(consumeAppId(opts.rest, TRUE))

runRatings(rest0, config) ==
  LET opts == takeOptions(takeFlag(rest0, OPT_JSON).rest, <<OPT_PLATFORM, OPT_PERIOD>>)
      periodValue == opts.values[2]
      Handle(app) ==
        LET accessToken == requireAuthenticatedAccessToken(config)
            platform == resolvePlatformArg(opts.values[1])
            period == IF periodValue = Null THEN DEFAULT_PERIOD ELSE parsePeriodValue(periodValue)
        IN  IF opts.threw THEN Fail(MSG_MISSING_VALUE, opts.arg)
            ELSE IF app.err # "" THEN Fail(app.err, app.arg)
            ELSE IF Len(app.rest) > 0 THEN Fail(MSG_UNKNOWN_ARGS, join(app.rest))
            ELSE IF accessToken = Null THEN Fail(MSG_NOT_AUTHENTICATED, <<>>)
            ELSE IF platform.err # "" THEN Fail(platform.err, <<>>)
            ELSE IF period = 0 THEN Fail(MSG_PERIOD, <<>>)
            ELSE Send([NoRequest EXCEPT !.path = "/api/cli/apps/{appId}/{platform}/ratings",
                                        !.method = "POST", !.accessToken = accessToken,
                                        !.hasBody = TRUE, !.app = app.appId,
                                        !.platform = platform.value, !.period = period])
  IN  Handle(consumeAppId(opts.rest, TRUE))

\* ------------------------------------------------------------------------
\* Login: the synchronous steps of runAuthLogin
\* ------------------------------------------------------------------------

\* Messages (the back quotes of the source around asosuite login are left out)
MSG_INVALID_START == "Server returned an invalid authentication payload"
MSG_INVALID_TOKEN == "Server returned an invalid token response"
MSG_EXPIRED == "Authorization request expired. Run asosuite login again."
MSG_INVALIDATED == "Authorization request is no longer valid. Run asosuite login again."
MSG_TIMED_OUT == "Authentication timed out. Run asosuite login again."
MSG_TYPE_ERROR == "TypeError: Cannot read properties of null"
MSG_REAUTH == "Authentication failed. Run asosuite login again."

\* runAuthLogin clearing the stored credential before it starts
runAuthLoginClearing(rest0, config) ==
  LET rest == takeFlag(rest0, OPT_NO_OPEN).rest
  IN  IF Len(rest) > 0 THEN Fail(MSG_UNKNOWN_ARGS, join(rest))
      ELSE [Send([NoRequest EXCEPT !.path = "/api/cli/auth/start", !.method = "POST"])
              EXCEPT !.save = TRUE, !.config = EmptyConfig]

\* up to the start request
runAuthLogin(rest0, config) ==
  LET rest == takeFlag(rest0, OPT_NO_OPEN).rest
  IN  IF Len(rest) > 0 THEN Fail(MSG_UNKNOWN_ARGS, join(rest))
      ELSE Send([NoRequest EXCEPT !.path = "/api/cli/auth/start", !.method = "POST"])

\* Number(x) > 0 ? Number(x) : fallback
PositiveOr(x, fallback) == IF x.present /\ x.n > 0 THEN x.n ELSE fallback

PollIntervalSeconds(start) ==
  PositiveOr(start.pollIntervalSeconds, DEFAULT_POLL_INTERVAL_SECONDS)

ExpiresInSeconds(start) ==
  PositiveOr(start.expiresInSeconds, DEFAULT_EXPIRES_IN_SECONDS)

\* the deadline one poll interval later
DeadlineWithGrace(clock, start) == clock + ExpiresInSeconds(start) + PollIntervalSeconds(start)

\* const deadline = Date.now() + expiresInSeconds * 1000, in seconds
Deadline(clock, start) == clock + ExpiresInSeconds(start)

\* the loop condition with <= in place of <
MayPollAtDeadline(clock, limit) == clock <= limit

\* the loop condition: Date.now() < deadline
MayPoll(clock, limit) == clock < limit

\* the token-poll request
TokenRequest(deviceCode) ==
  [NoRequest EXCEPT !.path = "/api/cli/auth/token", !.method = "POST",
                    !.hasBody = TRUE, !.deviceCode = deviceCode]

\* PollCatch with 429 (rate limited) retried like 428
PollCatchRetryRateLimited(error) ==
  LET status == error.status
  IN  IF status = 428 \/ status = 429 THEN [sleep |-> TRUE, error |-> NoError]
      ELSE IF status = 410 THEN [sleep |-> FALSE, error |-> Thrown(MSG_EXPIRED, <<>>)]
      ELSE IF status = 409 \/ status = 400
      THEN [sleep |-> FALSE, error |-> Thrown(MSG_INVALIDATED, <<>>)]
      ELSE [sleep |-> FALSE, error |-> error]

\* PollCatch without the 400 case
PollCatchNoBadRequest(error) ==
  LET status == error.status
  IN  IF status = 428 THEN [sleep |-> TRUE, error |-> NoError]
      ELSE IF status = 410 THEN [sleep |-> FALSE, error |-> Thrown(MSG_EXPIRED, <<>>)]
      ELSE IF status = 409 THEN [sleep |-> FALSE, error |-> Thrown(MSG_INVALIDATED, <<>>)]
      ELSE [sleep |-> FALSE, error |-> error]

\* PollCatch throwing a new error in place of the one caught
PollCatchWrapped(error) ==
  LET status == error.status
  IN  IF status = 428 THEN [sleep |-> TRUE, error |-> NoError]
      ELSE IF status = 410 THEN [sleep |-> FALSE, error |-> Thrown(MSG_EXPIRED, <<>>)]
      ELSE IF status = 409 \/ status = 400
      THEN [sleep |-> FALSE, error |-> Thrown(MSG_INVALIDATED, <<>>)]
      ELSE [sleep |-> FALSE, error |-> Thrown(error.message, <<>>)]

\* the catch clause of the poll loop: what it does with the error caught.
\* sleep: sleep and continue; otherwise the error it throws.
PollCatch(error) ==
  LET status == error.status
  IN  IF status = 428 THEN [sleep |-> TRUE, error |-> NoError]
      ELSE IF status = 410 THEN [sleep |-> FALSE, error |-> Thrown(MSG_EXPIRED, <<>>)]
      ELSE IF status = 409 \/ status = 400
      THEN [sleep |-> FALSE, error |-> Thrown(MSG_INVALIDATED, <<>>)]
      ELSE [sleep |-> FALSE, error |-> error]

\* TokenAccepted checking the token only
TokenAcceptedTokenOnly(tokenResponse) ==
  LET accessToken == trim(StringOrEmpty(tokenResponse.accessToken))
      expiresAt == trim(StringOrEmpty(tokenResponse.expiresAt))
  IN  IF tokenResponse.isNull THEN [ok |-> FALSE, error |-> Thrown(MSG_TYPE_ERROR, <<>>),
                                    config |-> EmptyConfig]
      ELSE IF accessToken = <<>>
      THEN [ok |-> FALSE, error |-> Thrown(MSG_INVALID_TOKEN, <<>>), config |-> EmptyConfig]
      ELSE [ok |-> TRUE, error |-> NoError,
            config |-> [accessToken |-> accessToken, expiresAt |-> expiresAt,
                        other |-> FALSE]]

\* the try block after a successful token response: the credential saved,
\* or the error thrown inside the try block
TokenAccepted(tokenResponse) ==
  LET accessToken == trim(StringOrEmpty(tokenResponse.accessToken))
      expiresAt == trim(StringOrEmpty(tokenResponse.expiresAt))
  IN  IF tokenResponse.isNull THEN [ok |-> FALSE, error |-> Thrown(MSG_TYPE_ERROR, <<>>),
                                    config |-> EmptyConfig]
      ELSE IF accessToken = <<>> \/ expiresAt = <<>>
      THEN [ok |-> FALSE, error |-> Thrown(MSG_INVALID_TOKEN, <<>>), config |-> EmptyConfig]
      ELSE [ok |-> TRUE, error |-> NoError,
            config |-> [accessToken |-> accessToken, expiresAt |-> expiresAt,
                        other |-> FALSE]]

\* StartAccepted checking the deviceCode only
StartAcceptedDeviceCodeOnly(start) ==
  LET deviceCode == trim(StringOrEmpty(start.deviceCode))
  IN  IF start.isNull THEN [ok |-> FALSE, error |-> Thrown(MSG_TYPE_ERROR, <<>>),
                            deviceCode |-> Null]
      ELSE IF deviceCode = <<>>
      THEN [ok |-> FALSE, error |-> Thrown(MSG_INVALID_START, <<>>), deviceCode |-> Null]
      ELSE [ok |-> TRUE, error |-> NoError, deviceCode |-> deviceCode]

\* the start payload is usable: deviceCode and userCode are not empty
StartAccepted(start) ==
  LET userCode == trim(StringOrEmpty(start.userCode))
      deviceCode == trim(StringOrEmpty(start.deviceCode))
  IN  IF start.isNull THEN [ok |-> FALSE, error |-> Thrown(MSG_TYPE_ERROR, <<>>),
                            deviceCode |-> Null]
      ELSE IF deviceCode = <<>> \/ userCode = <<>>
      THEN [ok |-> FALSE, error |-> Thrown(MSG_INVALID_START, <<>>), deviceCode |-> Null]
      ELSE [ok |-> TRUE, error |-> NoError, deviceCode |-> deviceCode]

\* ------------------------------------------------------------------------
\* Dispatch and the top-level failure handler
\* ------------------------------------------------------------------------

runRemovePlannedKeywords(rest, config) ==
  LET opt == takeOption(rest, OPT_ID)
  IN  IF opt.threw THEN Fail(MSG_MISSING_VALUE, OPT_ID)
      ELSE IF opt.value = Null \/ opt.value = <<>>
      THEN Fail("Provide a planned app id via --id <PLANNED_APP_ID>", <<>>)
      ELSE runTrackedKeywordsRemove(opt.rest \o <<OPT_APP, opt.value>>, config)

\* run(): the handler selected by the command, up to its first request
run(command, rest, config) ==
  CASE command \in {"help", "--help", "-h"} -> Local(FALSE)
    [] command = "login" -> runAuthLogin(rest, config)
    [] command = "logout" -> runAuthLogout(rest, config)
    [] command = "subscription" -> runSubscriptionStatus(rest, config)
    [] command = "search-apps" -> runSearchApps(rest, config)
    [] command = "list-apps" -> runListApps(rest, config)
    [] command = "keywords" -> runKeywordMetrics(rest, config)
    [] command = "track-app" -> runTrackApp(rest, config)
    [] command = "untrack-app" -> runUntrackApp(rest, config)
    [] command = "plan-app" -> runPlanApp(rest, config)
    [] command = "unplan-app" -> runUnplanApp(rest, config)
    [] command = "add-keywords" -> runTrackedKeywordsAdd(rest, config)
    [] command = "remove-keywords" -> runTrackedKeywordsRemove(rest, config)
    [] command = "remove-planned-keywords" -> runRemovePlannedKeywords(rest, config)
    [] command = "related-apps" -> runRelatedApps(rest, config)
    [] command = "events" -> runEvents(rest, config)
    [] command = "tracked-keywords" -> runTrackedKeywords(rest, config)
    [] command = "charts" -> runRankings(rest, config)
    [] command = "features" -> runFeatured(rest, config)
    [] command = "ratings" -> runRatings(rest, config)
    [] OTHER -> Fail("Unknown command", <<>>)

\* parseArgs reading the command whatever its case
parseArgsAnyCase(command) ==
  IF command = "" THEN "help" ELSE IF command = "Login" THEN "login" ELSE command

\* parseArgs: args[0] || 'help'
parseArgs(command) == IF command = "" THEN "help" ELSE command

\* Math.trunc in the place of Math.ceil
ceilTruncating(x) == x.n

\* Math.ceil of a JSON number
ceil(x) == IF x.frac > 0 THEN x.n + 1 ELSE x.n

\* run().catch writing nothing for the status 401
TopLevelCatchSilentReauth(error) ==
  IF error.status = 401 THEN <<>> ELSE <<error.message>>

\* run().catch: the lines written to standard error (the process then exits 1)
TopLevelCatch(error) ==
  LET status == error.status
      payload == error.payload
      retryAfterSeconds == payload.retryAfterSeconds
  IN  IF status = 401 THEN <<MSG_REAUTH>>
      ELSE IF status = 402
      THEN <<error.message>>
           \o (IF payload.isObject /\ payload.subscribeUrl # Null
                  /\ trim(payload.subscribeUrl) # <<>>
               THEN <<"Subscribe: " \o Text(payload.subscribeUrl)>> ELSE <<>>)
      ELSE IF status = 429
      THEN <<error.message>>
           \o (IF payload.isObject /\ retryAfterSeconds.present
                  /\ (retryAfterSeconds.n > 0
                        \/ (retryAfterSeconds.n = 0 /\ retryAfterSeconds.frac > 0))
               THEN <<"Retry after: " \o ToString(ceil(retryAfterSeconds)) \o "s">>
               ELSE <<>>)
      ELSE IF status = 404
      THEN <<"CLI endpoint not found on server.", "Expected server URL: " \o API_BASE_URL>>
      ELSE <<error.message>>

\* ------------------------------------------------------------------------
\* The invocations explored
\* ------------------------------------------------------------------------

\* a text of n copies of the character c
Repeat(c, n) == [i \in 1..n |-> c]

T_APP == <<"6", "4", "4", "8", "3", "1">>
T_APP2 == <<"i", "d", "3", "3", "3", "9", "0", "3">>
T_URL ==
  <<"h", "t", "t", "p", "s", ":", "/", "/", "a", ".", "c", "o", "/", "u", "s", "/",
    "i", "d", "6", "4", "4", "8", "3", "1">>
T_PLANNED == <<"m", "y", "-", "a", "p", "p">>
T_KEYWORD == <<"r", "u", "n">>
T_QUOTED == <<"\"", "a", " ", " ", "b", "\"">>
T_BLANK == <<"\"", "\"">>
T_SPACED_QUOTE == <<"\"", " ", "\"", "r", "u", "n", "\"">>

\* the i-th of n keyword arguments
KeywordTokens(n) == [i \in 1..n |-> IF i = 2 THEN T_QUOTED ELSE T_KEYWORD]

\* The commands, each with the arguments that make it a valid invocation:
\* sub is the subcommand token (<<>> when there is none), pre the required
\* arguments, kw the number of keyword (or query) arguments.
Base(command, sub, pre, kw) == [command |-> command, sub |-> sub, pre |-> pre, kw |-> kw]

Bases ==
  { Base("help", <<>>, <<>>, 0), Base("", <<>>, <<>>, 0), Base("-h", <<>>, <<>>, 0),
    Base("login", <<>>, <<>>, 0), Base("logout", <<>>, <<>>, 0),
    Base("Login", <<>>, <<>>, 0), Base("bogus", <<>>, <<>>, 0),
    Base("subscription", <<>>, <<>>, 0), Base("list-apps", <<>>, <<>>, 0),
    Base("search-apps", <<>>, <<>>, 1),
    Base("keywords", <<>>, <<>>, 1),
    Base("keywords", <<>>, <<OPT_APP, T_APP>>, 1),
    Base("keywords", <<>>, <<T_APP>>, 1),
    Base("track-app", <<>>, <<OPT_APP, T_APP>>, 0),
    Base("untrack-app", <<>>, <<OPT_APP, T_APP>>, 0),
    Base("plan-app", <<>>, <<OPT_NAME, <<"M", "y", " ", "A", "p", "p">>>>, 0),
    Base("unplan-app", <<>>, <<OPT_ID, T_PLANNED>>, 0),
    Base("tracked-keywords", <<SUB_LIST>>, <<OPT_APP, T_APP>>, 0),
    Base("tracked-keywords", <<>>, <<OPT_APP, T_PLANNED>>, 0),
    Base("tracked-keywords", <<<<"l", "s", "t">>>>, <<>>, 0),
    Base("tracked-keywords", <<<<"M", "y", "-", "A", "p", "p">>>>, <<>>, 0),
    Base("tracked-keywords", <<<<"-", "-", "A", "P", "P">>>>, <<T_APP>>, 0),
    Base("tracked-keywords", <<Repeat("a", MAX_PLANNED_TRACKED_APP_ID_LENGTH + 1)>>, <<>>, 0),
    Base("tracked-keywords", <<SUB_ADD>>, <<OPT_APP, T_APP>>, 1),
    Base("tracked-keywords", <<<<"R", "e", "m", "o", "v", "e">>>>, <<OPT_APP, T_PLANNED>>, 1),
    Base("add-keywords", <<>>, <<OPT_APP, T_APP>>, 1),
    Base("remove-keywords", <<>>, <<OPT_APP, T_APP>>, 1),
    Base("remove-planned-keywords", <<>>, <<OPT_ID, T_PLANNED>>, 1),
    Base("related-apps", <<SUB_LIST>>, <<OPT_APP, T_APP>>, 0),
    Base("related-apps", <<SUB_ADD>>, <<OPT_APP, T_APP, OPT_RELATED, T_APP2>>, 0),
    Base("related-apps", <<SUB_REMOVE>>, <<OPT_APP, T_APP, OPT_RELATED, T_APP2>>, 0),
    Base("related-apps", <<>>, <<>>, 0),
    Base("events", <<SUB_LIST>>, <<>>, 0),
    Base("events", <<SUB_ADD>>, <<OPT_TEXT, <<"v", "2">>>>, 0),
    Base("events", <<SUB_DELETE>>, <<<<"1", "2">>>>, 0),
    Base("events", <<SUB_DELETE>>, <<<<"1", "2", "a">>>>, 0),
    Base("events", <<<<"d", "r", "o", "p">>>>, <<>>, 0),
    Base("charts", <<>>, <<OPT_APP, T_URL>>, 0),
    Base("features", <<>>, <<OPT_APP, T_APP>>, 0),
    Base("ratings", <<>>, <<OPT_APP, T_APP>>, 0) }

\* The values tried for each option
OptionValues(name) ==
  CASE name = OPT_REGION ->
         { <<"U", "S">>, <<" ", "s", "e">>, <<"U", "S", "A">>, <<"U", "1">>, <<>> }
    [] name = OPT_REGIONS ->
         { <<"U", "S", ",", "s", "e", ",", "U", "S">>, <<"U", "S", ",", "x", "x", "1">>,
           <<"z", "z", "z">>, <<>> }
    [] name = OPT_PLATFORM ->
         { <<"I", "P", "A", "D">>, <<"a", "n", "d", "r", "o", "i", "d">>, <<>> }
    [] name = OPT_PERIOD ->
         { <<"7">>, <<" ", "9", "0">>, <<"7", "d", "a", "y", "s">>, <<"8">>, <<"x">> }
    [] name = OPT_PAGE -> { <<"2">>, <<"0">>, <<"1", "0", "0", "1">>, <<"2", "x">>, <<"x">> }
    [] name = OPT_SORT ->
         { <<"L", "a", "s", "t", "U", "p", "d", "a", "t", "e">>, <<"r", "a", "n", "k">> }
    [] name = OPT_ORDER -> { <<"D", "E", "S", "C">>, <<"u", "p">> }
    [] name = OPT_APP -> { T_APP2, T_URL, T_PLANNED, <<"1", "2", "3">>, <<>> }
    [] name = OPT_RELATED -> { T_APP, <<"b", "a", "d">> }
    [] name = OPT_ID ->
         { <<"m", "y", " ", "i", "d">>, Repeat("a", MAX_PLANNED_TRACKED_APP_ID_LENGTH + 1),
           <<" ">> }
    [] name = OPT_NAME -> { <<"N">>, <<" ">> }
    [] name = OPT_TEXT -> { <<"t">>, <<" ">> }
    [] name = OPT_DATE ->
         { <<"2", "0", "2", "6", "-", "0", "2", "-", "2", "5">>,
           <<"2", "0", "2", "6", "-", "0", "2", "-", "3", "0">>,
           <<"2", "0", "2", "6", "-", "1", "3", "-", "0", "1">>,
           <<"2", "0", "2", "6", "-", "2", "-", "5">> }

ValueOptions ==
  { OPT_REGION, OPT_REGIONS, OPT_PLATFORM, OPT_PERIOD, OPT_PAGE, OPT_SORT, OPT_ORDER,
    OPT_APP, OPT_RELATED, OPT_ID, OPT_NAME, OPT_TEXT, OPT_DATE }

\* the numbers of keyword arguments tried: around each cap
KeywordCounts ==
  { 0, 2, MAX_KEYWORDS, MAX_KEYWORDS + 1, MAX_TRACKED_KEYWORDS_ADD,
    MAX_TRACKED_KEYWORDS_ADD + 1 }

\* One change made to a base invocation: front is put before the required
\* arguments, which are left out when drop holds; kw is the number of keyword
\* arguments (-1: the base's); back is put after the keywords.
Variation(drop, front, kw, back) == [drop |-> drop, front |-> front, kw |-> kw, back |-> back]

\* The app locator texts tried on features --app
L_UPPER_PREFIX ==
  <<"I", "D", "1", "2", "3", "4", "5", "6">>
L_PADDED_DIGITS ==
  <<" ", "1", "2", "3", "4", "5", "6", "7", " ">>
L_SHORT_PREFIXED ==
  <<"i", "d", "1", "2", "3", "4", "5">>
L_HOST_AND_PATH ==
  <<"h", "t", "t", "p", "s", ":", "/", "/", "i", "d", "2", "2", "2", "2", "2", "2",
    ".", "c", "o", "m", "/", "a", "p", "p", "/", "i", "d", "1", "1", "1", "1", "1", "1">>
L_SENTENCE ==
  <<"s", "e", "e", " ", "i", "d", "1", "2", "3", "4", "5", "6", " ", "h", "e", "r", "e">>
L_URL_EMBEDDED ==
  <<"h", "t", "t", "p", "s", ":", "/", "/", "a", ".", "c", "o", "m", "/", "i", "d",
    "1", "2", "3", "4", "5", "/", "x", "-", "i", "d", "6", "5", "4", "3", "2", "1">>
L_NO_BOUNDARY ==
  <<"x", "i", "d", "1", "2", "3", "4", "5", "6">>
L_DIGITS_LETTER ==
  <<"1", "2", "3", "4", "5", "a">>

LocatorTexts ==
  { L_UPPER_PREFIX, L_PADDED_DIGITS, L_SHORT_PREFIXED, L_HOST_AND_PATH,
    L_SENTENCE, L_URL_EMBEDDED, L_NO_BOUNDARY, L_DIGITS_LETTER }

LocatorVariations == { Variation(TRUE, <<OPT_APP, text>>, -1, <<>>) : text \in LocatorTexts }

Variations ==
  { Variation(FALSE, <<>>, -1, <<>>), Variation(TRUE, <<>>, -1, <<>>),
    Variation(FALSE, <<OPT_JSON>>, -1, <<>>),
    Variation(FALSE, <<OPT_NO_OPEN>>, -1, <<>>),
    Variation(FALSE, <<<<"-", "-", "j", "s", "n", "o">>>>, -1, <<>>),
    Variation(TRUE, <<T_APP>>, -1, <<>>),
    Variation(TRUE, <<T_PLANNED>>, -1, <<>>),
    Variation(TRUE, <<OPT_ID, <<"m", "y", " ", "i", "d">>>>, -1, <<>>),
    Variation(TRUE, <<OPT_ID, Repeat("a", MAX_PLANNED_TRACKED_APP_ID_LENGTH + 1)>>, -1, <<>>),
    Variation(TRUE, <<OPT_APP, <<"1", "2", "3">>>>, -1, <<>>),
    Variation(FALSE, <<OPT_REGION, <<"S", "E">>, OPT_REGIONS, <<"U", "S">>>>, -1, <<>>) }
  \cup UNION { { Variation(FALSE, <<name, value>>, -1, <<>>) : value \in OptionValues(name) } :
                 name \in ValueOptions }
  \cup { Variation(FALSE, <<>>, -1, <<name>>) : name \in {OPT_REGION, OPT_APP, OPT_PERIOD} }
  \cup { Variation(FALSE, <<>>, n, back) : n \in KeywordCounts, back \in {<<>>, <<T_BLANK>>} }
  \cup { Variation(FALSE, <<>>, -1, <<T_SPACED_QUOTE>>) }
  \cup LocatorVariations

\* process.argv.slice(3) of the invocation
Argv(base, variation) ==
  base.sub \o variation.front
    \o (IF variation.drop THEN <<>> ELSE base.pre)
    \o KeywordTokens(IF variation.kw < 0 THEN base.kw ELSE variation.kw)
    \o variation.back

\* the commands whose positional arguments are a keyword list
KeywordCommands ==
  {"keywords", "tracked-keywords", "add-keywords", "remove-keywords", "remove-planned-keywords"}

\* every variation of every base; the keyword counts around the caps are
\* tried on the commands that take keywords, the locator texts on features
Inputs ==
  { i \in [base : Bases, variation : Variations] :
      /\ i.variation.kw <= 2 \/ (i.base.kw = 1 /\ i.base.command \in KeywordCommands)
      /\ i.variation \in LocatorVariations => i.base.command = "features" }

NoInput == [base |-> Base("", <<>>, <<>>, 0), variation |-> Variation(FALSE, <<>>, -1, <<>>)]

\* ------------------------------------------------------------------------
\* The HTTP gateway
\* ------------------------------------------------------------------------

\* JSON values: the parsed body of an error response, as far as the program
\* reads it (type, and for an object its error, subscribeUrl and
\* retryAfterSeconds fields).  NoPayload is null.
JsonValue(type, errorIsString, error, subscribeUrl, retryAfterSeconds) ==
  [isObject |-> type = "object", type |-> type, errorIsString |-> errorIsString,
   error |-> error, subscribeUrl |-> subscribeUrl, retryAfterSeconds |-> retryAfterSeconds]

JsonObject(errorIsString, error, subscribeUrl, retryAfterSeconds) ==
  JsonValue("object", errorIsString, error, subscribeUrl, retryAfterSeconds)

\* The body texts explored
TEXT_INVALID_TOKEN ==
  <<"{", "\"", "e", "r", "r", "o", "r", "\"", ":", "\"", "i", "n", "v", "a", "l", "i", "d",
    " ", "t", "o", "k", "e", "n", "\"", "}">>
TEXT_SUBSCRIBE ==
  <<"{", "\"", "e", "r", "r", "o", "r", "\"", ":", "\"", "s", "u", "b", "s", "c", "r", "i",
    "p", "t", "i", "o", "n", " ", "r", "e", "q", "u", "i", "r", "e", "d", "\"", ",", "\"",
    "s", "u", "b", "s", "c", "r", "i", "b", "e", "U", "r", "l", "\"", ":", "\"", "h", "t",
    "t", "p", "\"", "}">>
TEXT_EXPIRED ==
  <<"{", "\"", "e", "r", "r", "o", "r", "\"", ":", "\"", "e", "x", "p", "i", "r", "e", "d",
    "\"", "}">>
TEXT_PENDING ==
  <<"{", "\"", "e", "r", "r", "o", "r", "\"", ":", "\"", "a", "u", "t", "h", "o", "r", "i",
    "z", "a", "t", "i", "o", "n", " ", "p", "e", "n", "d", "i", "n", "g", "\"", "}">>
TEXT_RATE_LIMITED ==
  <<"{", "\"", "e", "r", "r", "o", "r", "\"", ":", "\"", "r", "a", "t", "e", " ", "l", "i",
    "m", "i", "t", "e", "d", "\"", ",", "\"", "r", "e", "t", "r", "y", "A", "f", "t", "e",
    "r", "S", "e", "c", "o", "n", "d", "s", "\"", ":", "2", "}">>
TEXT_SUBSCRIBE_BLANK ==
  <<"{", "\"", "e", "r", "r", "o", "r", "\"", ":", "\"", "s", "u", "b", "s", "c", "r", "i",
    "p", "t", "i", "o", "n", " ", "r", "e", "q", "u", "i", "r", "e", "d", "\"", ",", "\"",
    "s", "u", "b", "s", "c", "r", "i", "b", "e", "U", "r", "l", "\"", ":", "\"", " ", "\"",
    "}">>
TEXT_RATE_LIMITED_FRACTION ==
  <<"{", "\"", "e", "r", "r", "o", "r", "\"", ":", "\"", "r", "a", "t", "e", " ", "l", "i",
    "m", "i", "t", "e", "d", "\"", ",", "\"", "r", "e", "t", "r", "y", "A", "f", "t", "e",
    "r", "S", "e", "c", "o", "n", "d", "s", "\"", ":", "1", ".", "5", "}">>
TEXT_RATE_LIMITED_ZERO ==
  <<"{", "\"", "e", "r", "r", "o", "r", "\"", ":", "\"", "r", "a", "t", "e", " ", "l", "i",
    "m", "i", "t", "e", "d", "\"", ",", "\"", "r", "e", "t", "r", "y", "A", "f", "t", "e",
    "r", "S", "e", "c", "o", "n", "d", "s", "\"", ":", "0", "}">>
TEXT_RATE_LIMITED_BARE ==
  <<"{", "\"", "e", "r", "r", "o", "r", "\"", ":", "\"", "r", "a", "t", "e", " ", "l", "i",
    "m", "i", "t", "e", "d", "\"", "}">>
TEXT_BOOM ==
  <<"{", "\"", "e", "r", "r", "o", "r", "\"", ":", "\"", "b", "o", "o", "m", "\"", "}">>
TEXT_NO_ERROR_FIELD ==
  <<"{", "\"", "m", "e", "s", "s", "a", "g", "e", "\"", ":", "\"", "b", "o", "o", "m",
    "\"", "}">>
TEXT_ERROR_NUMBER ==
  <<"{", "\"", "e", "r", "r", "o", "r", "\"", ":", "4", "2", "}">>
TEXT_NULL ==
  <<"n", "u", "l", "l">>
TEXT_JSON_STRING ==
  <<"\"", "<", "h", "t", "m", "l", ">", "\"">>
TEXT_HTML ==
  <<"<", "!", "D", "O", "C", "T", "Y", "P", "E", " ", "h", "t", "m", "l", ">", "<", "p",
    ">", "4", "0", "4", "<", "/", "p", ">">>
TEXT_HTML_UPPER ==
  <<" ", "<", "H", "T", "M", "L", ">", "<", "p", ">", "d", "o", "w", "n", "<", "/", "p", ">">>
TEXT_HTML_BODY ==
  <<"d", "o", "w", "n", " ", "<", "B", "o", "d", "y", ">">>
TEXT_PLAIN ==
  <<"b", "a", "d", " ", "r", "e", "q", "u", "e", "s", "t">>

\* JSON.parse(text): threw when the text is not JSON, else the value
JSONparse(text) ==
  LET Parsed(value) == [threw |-> FALSE, value |-> value]
  IN  CASE text = TEXT_INVALID_TOKEN -> Parsed(JsonObject(TRUE, "invalid token", Null, Absent))
        [] text = TEXT_SUBSCRIBE ->
             Parsed(JsonObject(TRUE, "subscription required", <<"h", "t", "t", "p">>, Absent))
        [] text = TEXT_EXPIRED -> Parsed(JsonObject(TRUE, "expired", Null, Absent))
        [] text = TEXT_PENDING -> Parsed(JsonObject(TRUE, "authorization pending", Null, Absent))
        [] text = TEXT_RATE_LIMITED -> Parsed(JsonObject(TRUE, "rate limited", Null, Num(2)))
        [] text = TEXT_SUBSCRIBE_BLANK ->
             Parsed(JsonObject(TRUE, "subscription required", <<" ">>, Absent))
        [] text = TEXT_RATE_LIMITED_FRACTION ->
             Parsed(JsonObject(TRUE, "rate limited", Null, Decimal(1, 5)))
        [] text = TEXT_RATE_LIMITED_ZERO -> Parsed(JsonObject(TRUE, "rate limited", Null, Num(0)))
        [] text = TEXT_RATE_LIMITED_BARE -> Parsed(JsonObject(TRUE, "rate limited", Null, Absent))
        [] text = TEXT_BOOM -> Parsed(JsonObject(TRUE, "boom", Null, Absent))
        [] text = TEXT_NO_ERROR_FIELD -> Parsed(JsonObject(FALSE, "", Null, Absent))
        [] text = TEXT_ERROR_NUMBER -> Parsed(JsonObject(FALSE, "", Null, Absent))
        [] text = TEXT_NULL -> Parsed(NoPayload)
        [] text = TEXT_JSON_STRING -> Parsed(JsonValue("string", FALSE, "", Null, Absent))
        [] OTHER -> [threw |-> TRUE, value |-> NoPayload]

\* The parsed JSON body of a successful response (null for status 204): the
\* fields the login reads.
NullBody ==
  [isNull |-> TRUE, userCode |-> Null, deviceCode |-> Null, pollIntervalSeconds |-> Absent,
   expiresInSeconds |-> Absent, accessToken |-> Null, expiresAt |-> Null]

\* What fetch() settles with: it rejects (transport, no HTTP status), or it
\* resolves with a response.  text is the body, readable tells whether
\* response.text() resolves, url is the origin of response.url ("" when
\* response.url is no URL).

Response(status, statusText, text, body) ==
  [transport |-> FALSE, status |-> status, statusText |-> statusText, text |-> text,
   readable |-> TRUE, url |-> API_BASE_URL, body |-> body]

EmptyText == <<>>

TransportFailure ==
  [transport |-> TRUE, status |-> NO_STATUS, statusText |-> "fetch failed", text |-> EmptyText,
   readable |-> TRUE, url |-> "", body |-> NullBody]

\* String.prototype.includes
includes(s, part) ==
  \E i \in 1..(Len(s) - Len(part) + 1) : SubSeq(s, i, i + Len(part) - 1) = part

\* looksLikeHtml comparing the text as it is, neither trimmed nor in lower
\* case
looksLikeHtmlAsIs(text) ==
  \/ startsWith(text, <<"<", "!", "d", "o", "c", "t", "y", "p", "e", " ", "h", "t", "m", "l">>)
  \/ startsWith(text, <<"<", "h", "t", "m", "l">>)
  \/ includes(text, <<"<", "b", "o", "d", "y">>)

\* looksLikeHtml(text)
looksLikeHtml(text) ==
  LET normalized == toLowerCase(trim(text))
  IN  \/ startsWith(normalized,
                    <<"<", "!", "d", "o", "c", "t", "y", "p", "e", " ", "h", "t", "m", "l">>)
      \/ startsWith(normalized, <<"<", "h", "t", "m", "l">>)
      \/ includes(normalized, <<"<", "b", "o", "d", "y">>)

\* getResponseOrigin(response)
getResponseOrigin(response) == IF response.url = "" THEN API_BASE_URL ELSE response.url

\* the status line: status and statusText with a space between
StatusLine(response) == ToString(response.status) \o " " \o response.statusText

\* parseErrorResponse keeping the raw text as message of every JSON body
parseErrorResponseRawMessage(response) ==
  LET text == IF response.readable THEN response.text ELSE <<>>
      parsed == JSONparse(text)
  IN  IF text = <<>> THEN [message |-> StatusLine(response), payload |-> NoPayload]
      ELSE IF ~parsed.threw THEN [message |-> Text(text), payload |-> parsed.value]
      ELSE IF looksLikeHtml(text)
      THEN [message |-> "Request failed (" \o StatusLine(response)
                          \o "). Received HTML response from "
                          \o getResponseOrigin(response) \o ".",
            payload |-> NoPayload]
      ELSE [message |-> Text(text), payload |-> NoPayload]

\* parseErrorResponse(response): the message and payload of the error
parseErrorResponse(response) ==
  LET text == IF response.readable THEN response.text ELSE <<>>
      parsed == JSONparse(text)
  IN  IF text = <<>> THEN [message |-> StatusLine(response), payload |-> NoPayload]
      ELSE IF ~parsed.threw
      THEN IF parsed.value.isObject /\ parsed.value.errorIsString
           THEN [message |-> parsed.value.error, payload |-> parsed.value]
           ELSE [message |-> Text(text), payload |-> parsed.value]
      ELSE IF looksLikeHtml(text)
      THEN [message |-> "Request failed (" \o StatusLine(response)
                          \o "). Received HTML response from "
                          \o getResponseOrigin(response) \o ".",
            payload |-> NoPayload]
      ELSE [message |-> Text(text), payload |-> NoPayload]

\* response.ok: the status is in 200..299
ResponseOk(response) == response.status >= 200 /\ response.status <= 299

\* apiRequest: the Authorization header of the request, Null when none is set
\* (if (accessToken) headers.Authorization = ...)
Authorization(accessToken) ==
  IF accessToken # Null /\ accessToken # <<>>
  THEN <<"B", "e", "a", "r", "e", "r", " ">> \o accessToken
  ELSE Null

\* apiRequest once fetch has settled: the error thrown, or the value returned
apiRequest(response) ==
  IF response.transport
  THEN [threw |-> TRUE, error |-> Thrown(response.statusText, <<>>), body |-> NullBody]
  ELSE IF ~ResponseOk(response)
  THEN LET parsedError == parseErrorResponse(response)
       IN  [threw |-> TRUE,
            error |-> [status |-> response.status, message |-> parsedError.message,
                       arg |-> <<>>, payload |-> parsedError.payload],
            body |-> NullBody]
  ELSE IF response.status = 204 THEN [threw |-> FALSE, error |-> NoError, body |-> NullBody]
  ELSE [threw |-> FALSE, error |-> NoError, body |-> response.body]

\* ------------------------------------------------------------------------
\* The server answers explored
\* ------------------------------------------------------------------------

\* the response with a body that cannot be read, or that came from another
\* origin
Unreadable(response) == [response EXCEPT !.readable = FALSE]
From(response, url) == [response EXCEPT !.url = url]

FailureResponses ==
  { TransportFailure,
    Response(400, "Bad Request", TEXT_PLAIN, NullBody),
    Response(401, "Unauthorized", TEXT_INVALID_TOKEN, NullBody),
    Response(402, "Payment Required", TEXT_SUBSCRIBE, NullBody),
    Response(404, "Not Found", TEXT_HTML, NullBody),
    Response(409, "Conflict", EmptyText, NullBody),
    Response(410, "Gone", TEXT_EXPIRED, NullBody),
    Response(428, "Precondition Required", TEXT_PENDING, NullBody),
    Response(429, "Too Many Requests", TEXT_RATE_LIMITED, NullBody),
    Response(429, "Too Many Requests", TEXT_RATE_LIMITED_FRACTION, NullBody),
    Response(429, "Too Many Requests", TEXT_RATE_LIMITED_ZERO, NullBody),
    Response(429, "Too Many Requests", TEXT_RATE_LIMITED_BARE, NullBody),
    Response(402, "Payment Required", TEXT_SUBSCRIBE_BLANK, NullBody),
    Response(500, "Internal Server Error", TEXT_NO_ERROR_FIELD, NullBody),
    Response(500, "Internal Server Error", TEXT_BOOM, NullBody),
    Response(500, "Internal Server Error", TEXT_ERROR_NUMBER, NullBody),
    Response(500, "Internal Server Error", TEXT_NULL, NullBody),
    Response(500, "Internal Server Error", TEXT_JSON_STRING, NullBody),
    From(Response(502, "Bad Gateway", TEXT_HTML_UPPER, NullBody), "https://proxy.example"),
    From(Response(503, "Service Unavailable", TEXT_HTML_BODY, NullBody), ""),
    Unreadable(Response(503, "Service Unavailable", TEXT_BOOM, NullBody)) }

NoContent == Response(204, "No Content", EmptyText, NullBody)

StartBody(userCode, deviceCode, pollIntervalSeconds, expiresInSeconds) ==
  [NullBody EXCEPT !.isNull = FALSE, !.userCode = userCode, !.deviceCode = deviceCode,
                   !.pollIntervalSeconds = pollIntervalSeconds,
                   !.expiresInSeconds = expiresInSeconds]

T_USER_CODE == <<" ", "A", "B", " ">>
T_DEVICE_CODE == <<"d", "c", " ">>

StartBodies ==
  { StartBody(T_USER_CODE, T_DEVICE_CODE, Num(1), Num(3)),
    StartBody(T_USER_CODE, T_DEVICE_CODE, Num(2), Num(5)),
    StartBody(T_USER_CODE, T_DEVICE_CODE, Absent, Num(4)),
    StartBody(T_USER_CODE, T_DEVICE_CODE, Num(0), Num(7)),
    StartBody(T_USER_CODE, T_DEVICE_CODE, Num(250), Absent),
    StartBody(T_USER_CODE, T_DEVICE_CODE, Num(400), Num(-1)),
    StartBody(<<" ", " ">>, T_DEVICE_CODE, Num(1), Num(2)),
    StartBody(T_USER_CODE, Null, Num(1), Num(2)) }

StartResponses ==
  FailureResponses \cup {NoContent}
    \cup { Response(200, "OK", EmptyText, body) : body \in StartBodies }

TokenBody(accessToken, expiresAt) ==
  [NullBody EXCEPT !.isNull = FALSE, !.accessToken = accessToken, !.expiresAt = expiresAt]

T_TOKEN == <<" ", "t", "k", "1", " ">>
T_EXPIRES == <<"2", "0", "3", "0", "-", "0", "1", "-", "0", "1">>

TokenBodies ==
  { TokenBody(T_TOKEN, T_EXPIRES), TokenBody(<<" ">>, T_EXPIRES), TokenBody(T_TOKEN, Null),
    TokenBody(Null, Null) }

TokenResponses ==
  FailureResponses \cup {NoContent}
    \cup { Response(200, "OK", EmptyText, body) : body \in TokenBodies }

\* the answers to the request of a command other than login
CommandResponses ==
  FailureResponses \cup {NoContent, Response(200, "OK", EmptyText, TokenBody(Null, Null))}

\* The credential file before the first command: absent or unreadable (read
\* as the empty object), a credential saved earlier next to another field,
\* or an object whose token is blank.
InitialConfigs ==
  { EmptyConfig,
    [accessToken |-> <<"t", "k", "0", " ">>, expiresAt |-> T_EXPIRES, other |-> TRUE],
    [accessToken |-> <<" ">>, expiresAt |-> Null, other |-> TRUE] }

\* ------------------------------------------------------------------------
\* State
\* ------------------------------------------------------------------------

VARIABLES
  config,        \* the parsed content of the credential file
  configBefore,  \* its content when the running invocation started
  pc,            \* where the invocation is: idle (no process), start, browser,
                 \* poll, sleep (login awaiting that step), request (another
                 \* command awaiting its response), done (process exited)
  input,         \* the invocation's arguments
  request,       \* the arguments of the latest apiRequest call
  response,      \* what the latest fetch settled with
  thrown,        \* the error that reached run().catch, NoError if none
  now,           \* Date.now() in seconds since the invocation started
  deadline,      \* the login's deadline
  start,         \* the login's start payload
  sleepFor,      \* the duration of the sleep in progress
  startCount,    \* start requests issued by the invocation
  pollCount,     \* token-poll requests issued
  sendCount,     \* requests issued by a command other than login
  sleepCount,    \* sleeps started
  pendingCount,  \* token-poll responses with status 428
  saveCount,     \* saveConfig calls
  openCount,     \* openInBrowser calls
  inflight       \* fetches not settled yet

vars ==
  <<config, configBefore, pc, input, request, response, thrown, now, deadline, start,
    sleepFor, startCount, pollCount, sendCount, sleepCount, pendingCount, saveCount,
    openCount, inflight>>

NoResponse == Response(0, "", EmptyText, NullBody)

\* the fields of a process that has not issued a request yet
Fresh ==
  /\ request' = NoRequest
  /\ response' = NoResponse
  /\ thrown' = NoError
  /\ now' = 0
  /\ deadline' = 0
  /\ start' = NullBody
  /\ sleepFor' = 0
  /\ startCount' = 0
  /\ pollCount' = 0
  /\ sendCount' = 0
  /\ sleepCount' = 0
  /\ pendingCount' = 0
  /\ saveCount' = 0
  /\ openCount' = 0
  /\ inflight' = 0

Init ==
  /\ config \in InitialConfigs
  /\ configBefore = config
  /\ pc = "idle"
  /\ input = NoInput
  /\ request = NoRequest
  /\ response = NoResponse
  /\ thrown = NoError
  /\ now = 0
  /\ deadline = 0
  /\ start = NullBody
  /\ sleepFor = 0
  /\ startCount = 0
  /\ pollCount = 0
  /\ sendCount = 0
  /\ sleepCount = 0
  /\ pendingCount = 0
  /\ saveCount = 0
  /\ openCount = 0
  /\ inflight = 0

IsLogin(i) == parseArgs(i.base.command) = "login"

\* ------------------------------------------------------------------------
\* Actions
\* ------------------------------------------------------------------------

\* The process starts: run() up to the handler's first request, its throw or
\* its return.
Invoke ==
  /\ pc = "idle"
  /\ \E i \in Inputs :
       LET Handled(result, sent) ==
             /\ input' = i
             /\ configBefore' = config
             /\ config' = IF result.save THEN result.config ELSE config
             /\ saveCount' = IF result.save THEN 1 ELSE 0
             /\ request' = result.req
             /\ thrown' = result.error
             /\ pc' = IF ~sent THEN "done" ELSE IF IsLogin(i) THEN "start" ELSE "request"
             /\ startCount' = IF sent /\ IsLogin(i) THEN 1 ELSE 0
             /\ sendCount' = IF sent /\ ~IsLogin(i) THEN 1 ELSE 0
             /\ inflight' = IF sent THEN 1 ELSE 0
           Run(result) == Handled(result, result.kind = "request")
       IN  Run(run(parseArgs(i.base.command), Argv(i.base, i.variation), config))
  /\ response' = NoResponse
  /\ now' = 0
  /\ deadline' = 0
  /\ start' = NullBody
  /\ sleepFor' = 0
  /\ pollCount' = 0
  /\ sleepCount' = 0
  /\ pendingCount' = 0
  /\ openCount' = 0

\* What a handler does with the value apiRequest returned: with --json it
\* prints it; without, runSubscriptionStatus and runKeywordMetrics read its
\* fields at once, which throws a TypeError when the value is null (status
\* 204); the other handlers check the value before they read it.
Render(i, body) ==
  IF /\ body.isNull
     /\ i.base.command \in {"subscription", "keywords"}
     /\ ~takeFlag(Argv(i.base, i.variation), OPT_JSON).value
  THEN [error |-> Thrown(MSG_TYPE_ERROR, <<>>)]
  ELSE [error |-> NoError]

\* Respond re-issuing the request when the answer is 429
RespondRetry ==
  /\ pc = "request"
  /\ \E r \in CommandResponses :
       LET again == ~r.transport /\ r.status = 429 /\ sendCount < 2
       IN  /\ response' = r
           /\ thrown' = IF again THEN NoError ELSE apiRequest(r).error
           /\ pc' = IF again THEN "request" ELSE "done"
           /\ sendCount' = IF again THEN sendCount + 1 ELSE sendCount
           /\ inflight' = IF again THEN 1 ELSE 0
  /\ UNCHANGED <<config, configBefore, input, request, now, deadline, start, sleepFor,
                 startCount, pollCount, sleepCount, pendingCount, saveCount, openCount>>

\* The response of a command other than login arrives: the handler prints
\* the result and returns, or the error of apiRequest reaches run().catch.
Respond ==
  /\ pc = "request"
  /\ \E r \in CommandResponses :
       /\ response' = r
       /\ thrown' = IF apiRequest(r).threw THEN apiRequest(r).error
                     ELSE Render(input, apiRequest(r).body).error
  /\ pc' = "done"
  /\ inflight' = inflight - 1
  /\ UNCHANGED <<config, configBefore, input, request, now, deadline, start, sleepFor,
                 startCount, pollCount, sendCount, sleepCount, pendingCount, saveCount,
                 openCount>>

\* while (Date.now() < deadline): the next token poll is issued, or the loop
\* is left and the login times out
LoopCheck(clock, limit, deviceCode) ==
  IF MayPoll(clock, limit)
  THEN [pc |-> "poll", req |-> TokenRequest(deviceCode), error |-> NoError, polls |-> 1]
  ELSE [pc |-> "done", req |-> NoRequest, error |-> Thrown(MSG_TIMED_OUT, <<>>), polls |-> 0]

\* const deadline = ...; then the first evaluation of the loop condition
EnterLoop(clock, body) ==
  LET limit == Deadline(clock, body)
      step == LoopCheck(clock, limit, StartAccepted(body).deviceCode)
  IN  /\ deadline' = limit
      /\ pc' = step.pc
      /\ request' = IF step.polls = 1 THEN step.req ELSE request
      /\ thrown' = step.error
      /\ pollCount' = pollCount + step.polls
      /\ inflight' = step.polls

\* The start response arrives d seconds after the request: the payload is
\* checked, the code printed, and the browser opened unless --no-open was
\* given (then the loop is entered at once).
StartRespond ==
  /\ pc = "start"
  /\ \E d \in 0..MaxDelay, r \in StartResponses :
       LET api == apiRequest(r)
           accepted == StartAccepted(api.body)
           noOpen == takeFlag(Argv(input.base, input.variation), OPT_NO_OPEN).value
       IN  /\ response' = r
           /\ now' = now + d
           /\ IF api.threw \/ ~accepted.ok
              THEN /\ thrown' = IF api.threw THEN api.error ELSE accepted.error
                   /\ pc' = "done"
                   /\ inflight' = 0
                   /\ UNCHANGED <<start, deadline, request, pollCount, openCount>>
              ELSE /\ start' = api.body
                   /\ IF noOpen
                      THEN /\ EnterLoop(now + d, api.body)
                           /\ UNCHANGED openCount
                      ELSE /\ pc' = "browser"
                           /\ openCount' = openCount + 1
                           /\ inflight' = 0
                           /\ UNCHANGED <<deadline, request, thrown, pollCount>>
  /\ UNCHANGED <<config, configBefore, input, sleepFor, startCount, sendCount, sleepCount,
                 pendingCount, saveCount>>

\* openInBrowser settles (opened or not) d seconds later; the loop is entered.
BrowserDone ==
  /\ pc = "browser"
  /\ \E d \in 0..MaxDelay :
       /\ now' = now + d
       /\ EnterLoop(now + d, start)
  /\ UNCHANGED <<config, configBefore, input, response, start, sleepFor, startCount,
                 sendCount, sleepCount, pendingCount, saveCount, openCount>>

\* PollRespond going on with the loop after the credential is saved
PollRespondKeepPolling ==
  /\ pc = "poll"
  /\ \E d \in 0..MaxDelay, r \in TokenResponses :
       LET api == apiRequest(r)
           accepted == TokenAccepted(api.body)
           caught == PollCatch(IF api.threw THEN api.error ELSE accepted.error)
           saved == ~api.threw /\ accepted.ok
           sleeps == saved \/ caught.sleep
       IN  /\ response' = r
           /\ now' = now + d
           /\ config' = IF saved THEN accepted.config ELSE config
           /\ saveCount' = IF saved THEN saveCount + 1 ELSE saveCount
           /\ thrown' = IF saved THEN NoError ELSE caught.error
           /\ pc' = IF sleeps THEN "sleep" ELSE "done"
           /\ sleepFor' = IF sleeps THEN PollIntervalSeconds(start) ELSE sleepFor
           /\ sleepCount' = IF sleeps THEN sleepCount + 1 ELSE sleepCount
           /\ pendingCount' = IF api.threw /\ api.error.status = 428
                              THEN pendingCount + 1 ELSE pendingCount
  /\ inflight' = inflight - 1
  /\ UNCHANGED <<configBefore, input, request, deadline, start, startCount, pollCount,
                 sendCount, openCount>>

\* A token-poll response arrives d seconds after the request: the body of
\* the try block, or the catch clause.
PollRespond ==
  /\ pc = "poll"
  /\ \E d \in 0..MaxDelay, r \in TokenResponses :
       LET api == apiRequest(r)
           accepted == TokenAccepted(api.body)
           caught == PollCatch(IF api.threw THEN api.error ELSE accepted.error)
           saved == ~api.threw /\ accepted.ok
           sleeps == ~saved /\ caught.sleep
       IN  /\ response' = r
           /\ now' = now + d
           /\ config' = IF saved THEN accepted.config ELSE config
           /\ saveCount' = IF saved THEN saveCount + 1 ELSE saveCount
           /\ thrown' = IF saved THEN NoError ELSE caught.error
           /\ pc' = IF sleeps THEN "sleep" ELSE "done"
           /\ sleepFor' = IF sleeps THEN PollIntervalSeconds(start) ELSE sleepFor
           /\ sleepCount' = IF sleeps THEN sleepCount + 1 ELSE sleepCount
           /\ pendingCount' = IF api.threw /\ api.error.status = 428
                              THEN pendingCount + 1 ELSE pendingCount
  /\ inflight' = inflight - 1
  /\ UNCHANGED <<configBefore, input, request, deadline, start, startCount, pollCount,
                 sendCount, openCount>>

\* The sleep ends, d seconds late; the loop condition is evaluated again.
SleepDone ==
  /\ pc = "sleep"
  /\ \E d \in 0..MaxDelay :
       LET clock == now + sleepFor + d
           step == LoopCheck(clock, deadline, StartAccepted(start).deviceCode)
       IN  /\ now' = clock
           /\ pc' = step.pc
           /\ request' = IF step.polls = 1 THEN step.req ELSE request
           /\ thrown' = step.error
           /\ pollCount' = pollCount + step.polls
           /\ inflight' = step.polls
  /\ UNCHANGED <<config, configBefore, input, response, deadline, start, sleepFor,
                 startCount, sendCount, sleepCount, pendingCount, saveCount, openCount>>

\* The process has exited; the next invocation finds the credential file.
Exit ==
  /\ pc = "done"
  /\ pc' = "idle"
  /\ input' = NoInput
  /\ configBefore' = config
  /\ Fresh
  /\ UNCHANGED config

Next ==
  \/ Invoke
  \/ Respond
  \/ StartRespond
  \/ BrowserDone
  \/ PollRespond
  \/ SleepDone
  \/ Exit

Spec == Init /\ [][Next]_vars

\* ------------------------------------------------------------------------
\* Observations
\* ------------------------------------------------------------------------

\* the lines run().catch wrote to standard error, and the exit code
stderr == IF thrown = NoError THEN <<>> ELSE TopLevelCatch(thrown)
exitCode == IF thrown = NoError THEN 0 ELSE 1

\* a login that has issued its start request
LoginRunning == pc # "idle" /\ IsLogin(input) /\ startCount = 1

\* The state of the device login, in the terms of the specification
LoginState ==
  CASE pc \in {"start", "browser"} -> "STARTING"
    [] pc \in {"poll", "sleep"} -> "WAITING_APPROVAL"
    [] pc = "done" /\ thrown = NoError -> "AUTHENTICATED"
    [] pc = "done" /\ thrown = Thrown(MSG_EXPIRED, <<>>) -> "EXPIRED"
    [] pc = "done" /\ thrown = Thrown(MSG_INVALIDATED, <<>>) -> "INVALIDATED"
    [] pc = "done" /\ thrown = Thrown(MSG_TIMED_OUT, <<>>) -> "TIMED_OUT"
    [] OTHER -> "FATAL"

\* a token-poll response is handled in this step
PollHandled == pc = "poll" /\ pc' # "poll"

\* the latest response is an HTTP failure with the status s
Failed(r, s) == ~r.transport /\ r.status = s

\* a text with a character that is not white space
NonBlank(v) == v # Null /\ \E k \in 1..Len(v) : v[k] \notin WhiteSpace

\* the credential file holds a credential
HoldsCredential(c) == NonBlank(c.accessToken) /\ NonBlank(c.expiresAt)

\* ------------------------------------------------------------------------
\* C1
\* ------------------------------------------------------------------------

\* the poll interval the specification gives: the server's value, or 3 when
\* it is absent or not positive
EffectivePollInterval(body) ==
  IF body.pollIntervalSeconds.present /\ body.pollIntervalSeconds.n >= 1
  THEN body.pollIntervalSeconds.n ELSE 3

\* C1: a token poll that fails with 428 leaves the login in WAITING_APPROVAL
\* and starts exactly one sleep of the effective poll interval, and no other
\* response starts a sleep; when the sleep ends the login polls again if the
\* deadline has not passed; a login that ends AUTHENTICATED after k answers
\* 428 has issued k + 1 polls, slept k times and has persisted a credential.
C1_Pending428 ==
  [][/\ PollHandled =>
          IF Failed(response', 428)
          THEN /\ pc' = "sleep"
               /\ LoginState' = "WAITING_APPROVAL"
               /\ sleepCount' = sleepCount + 1
               /\ sleepFor' = EffectivePollInterval(start)
               /\ pollCount' = pollCount
               /\ config' = config
          ELSE /\ pc' = "done"
               /\ sleepCount' = sleepCount
     /\ (pc = "sleep" /\ pc' # "sleep") =>
          /\ now' >= now + EffectivePollInterval(start)
          /\ sleepCount' = sleepCount
          /\ IF now' < deadline
             THEN pc' = "poll" /\ pollCount' = pollCount + 1
             ELSE pc' = "done" /\ pollCount' = pollCount
     /\ (LoginRunning' /\ LoginState' = "AUTHENTICATED") =>
          /\ pollCount' = pendingCount' + 1
          /\ sleepCount' = pendingCount'
          /\ HoldsCredential(config')
          /\ saveCount' = 1]_vars

\* the token endpoint answered 428 twice and then succeeded, the poll
\* interval being 1: three polls, two sleeps, a credential
C1_Witness ==
  /\ LoginRunning
  /\ LoginState = "AUTHENTICATED"
  /\ start.pollIntervalSeconds = Num(1)
  /\ pendingCount = 2
  /\ pollCount = 3
  /\ sleepCount = 2
  /\ HoldsCredential(config)

\* ------------------------------------------------------------------------
\* C2
\* ------------------------------------------------------------------------

\* the time at which the poll loop was entered
LoopEntered == deadline - ExpiresInSeconds(start)

\* C2: a token poll answered 410 ends the login in EXPIRED, one answered 409
\* or 400 ends it in INVALIDATED; no sleep and no poll follows, nothing is
\* written to the credential file, no request stays in flight and the one
\* line on standard error tells the user to run login again.  When that
\* answer is the first one, the login ends on its first poll without having
\* slept, no later than one request latency after the loop was entered.
C2_TerminalStatus ==
  [][(PollHandled /\ (Failed(response', 410) \/ Failed(response', 409) \/ Failed(response', 400)))
       => /\ pc' = "done"
          /\ LoginState' = (IF Failed(response', 410) THEN "EXPIRED" ELSE "INVALIDATED")
          /\ sleepCount' = sleepCount
          /\ pollCount' = pollCount
          /\ inflight' = 0
          /\ config' = config
          /\ saveCount' = 0
          /\ exitCode' = 1
          /\ stderr' \in { <<"Authorization request expired. Run asosuite login again.">>,
                           <<"Authorization request is no longer valid. Run asosuite login again.">> }
          /\ (pendingCount' = 0 =>
                pollCount' = 1 /\ sleepCount' = 0 /\ now' <= LoopEntered' + MaxDelay)]_vars

\* a first poll answered 410: the login ended EXPIRED before the deadline
C2_Witness ==
  /\ LoginRunning
  /\ LoginState = "EXPIRED"
  /\ Failed(response, 410)
  /\ pollCount = 1
  /\ sleepCount = 0
  /\ now < deadline

\* ------------------------------------------------------------------------
\* C3
\* ------------------------------------------------------------------------

\* the statuses the poll loop handles itself
HandledStatuses == {428, 410, 409, 400}

\* the latest token poll failed with a status the loop does not handle
OtherFailure(r) == r.transport \/ (~ResponseOk(r) /\ r.status \notin HandledStatuses)

\* C3: a token poll that fails with a status other than 428, 410, 409 and
\* 400, or with no status at all, ends the login at once, without sleep or
\* further poll, and the error of the gateway reaches the top-level handler
\* with its status, message and payload unchanged.
C3_OtherFailures ==
  [][(PollHandled /\ OtherFailure(response'))
       => /\ pc' = "done"
          /\ LoginState' = "FATAL"
          /\ sleepCount' = sleepCount
          /\ pollCount' = pollCount
          /\ inflight' = 0
          /\ config' = config
          /\ thrown'.status = (IF response'.transport THEN 0 ELSE response'.status)
          /\ thrown' = apiRequest(response').error]_vars

\* a poll answered 402 with a payload, after one answered 428
C3_Witness ==
  /\ LoginRunning
  /\ pc = "done"
  /\ Failed(response, 402)
  /\ thrown.status = 402
  /\ thrown.payload.subscribeUrl # Null
  /\ pendingCount = 1
  /\ pollCount = 2

\* ------------------------------------------------------------------------
\* C4
\* ------------------------------------------------------------------------

\* the lifetime the specification gives: the server's value, or 600 when it
\* is absent or not positive
EffectiveExpiresIn(body) ==
  IF body.expiresInSeconds.present /\ body.expiresInSeconds.n >= 1
  THEN body.expiresInSeconds.n ELSE 600

\* C4: the deadline is set once, when the start step (payload check and
\* browser launch) is over, to the time then read plus the effective
\* expiresInSeconds, and does not change while the login waits; a token poll
\* is issued only at a time before the deadline; the loop is left without a
\* response only at a time not before the deadline, and the login then ends
\* TIMED_OUT with the credential file untouched; a login all of whose polls
\* were answered 428 can end in no other way.
C4_Deadline ==
  [][/\ (pc \in {"start", "browser"} /\ pc' \notin {"start", "browser"} /\ start' # NullBody)
          => deadline' = now' + EffectiveExpiresIn(start')
     /\ (pc \in {"poll", "sleep"}) => deadline' = deadline
     /\ (pollCount' = pollCount + 1) => (pc' = "poll" /\ now' < deadline')
     /\ (pc \in {"start", "browser", "sleep"} /\ pc' = "done" /\ start' # NullBody)
          => /\ now' >= deadline'
             /\ LoginState' = "TIMED_OUT"
             /\ config' = config
             /\ saveCount' = 0
             /\ exitCode' = 1
     /\ (LoginRunning' /\ LoginState' = "TIMED_OUT") => now' >= deadline'
     /\ (LoginRunning' /\ pc' = "done" /\ pollCount' >= 1 /\ pendingCount' = pollCount')
          => LoginState' = "TIMED_OUT"]_vars

\* every poll was answered 428 until the default lifetime of 600 seconds
\* had passed
C4_Witness ==
  /\ LoginRunning
  /\ LoginState = "TIMED_OUT"
  /\ ~start.expiresInSeconds.present
  /\ deadline >= 600
  /\ now >= deadline
  /\ pollCount >= 2
  /\ pendingCount = pollCount

\* ------------------------------------------------------------------------
\* C5
\* ------------------------------------------------------------------------

\* v without the white space at its ends (v has a character that is none)
Stripped(v) ==
  LET inked == { k \in 1..Len(v) : v[k] \notin WhiteSpace }
      lo == CHOOSE k \in inked : \A j \in inked : k <= j
      hi == CHOOSE k \in inked : \A j \in inked : k >= j
  IN  SubSeq(v, lo, hi)

\* the token poll handled in this step succeeded, with the body b
PollSucceeded(r) == ~r.transport /\ ResponseOk(r)

\* C5: a successful token-poll response makes the login write the credential
\* file exactly when its accessToken and expiresAt both have a character
\* that is not white space; the file then holds the two trimmed values and
\* nothing else, and the login ends AUTHENTICATED; otherwise the login ends
\* in a fatal error and the file is untouched.  Every step leaves the file
\* as it was, empties it, or leaves it with a non-empty accessToken and
\* expiresAt.
C5_Credential ==
  [][/\ (PollHandled /\ PollSucceeded(response')) =>
          LET body == apiRequest(response').body
          IN  IF ~body.isNull /\ NonBlank(body.accessToken) /\ NonBlank(body.expiresAt)
              THEN /\ config' = [accessToken |-> Stripped(body.accessToken),
                                 expiresAt |-> Stripped(body.expiresAt), other |-> FALSE]
                   /\ saveCount' = saveCount + 1
                   /\ LoginState' = "AUTHENTICATED"
                   /\ exitCode' = 0
              ELSE /\ config' = config
                   /\ saveCount' = saveCount
                   /\ LoginState' = "FATAL"
                   /\ exitCode' = 1
                   /\ sleepCount' = sleepCount
     /\ \/ config' = config
        \/ config' = EmptyConfig
        \/ HoldsCredential(config') /\ ~config'.other]_vars

\* a login that found a credential file with another field in it ended
\* AUTHENTICATED: the file holds the two trimmed values only
C5_Witness ==
  /\ LoginRunning
  /\ LoginState = "AUTHENTICATED"
  /\ configBefore.other
  /\ response.body.accessToken = T_TOKEN
  /\ config = [accessToken |-> <<"t", "k", "1">>, expiresAt |-> T_EXPIRES, other |-> FALSE]

\* ------------------------------------------------------------------------
\* C6
\* ------------------------------------------------------------------------

\* C6: at most one request is in flight at any time; a command other than
\* login issues at most one request, none of them start or token-poll
\* requests, and is over once that request has been answered, whatever the
\* answer; a login issues its start request exactly once before anything
\* else and no request of another command.
C6_SingleAttempt ==
  /\ inflight \in {0, 1}
  /\ (inflight = 1) = (pc \in {"start", "poll", "request"})
  /\ startCount + sendCount <= 1
  /\ (pc # "idle" /\ ~IsLogin(input)) =>
       /\ startCount = 0
       /\ pollCount = 0
       /\ sleepCount = 0
       /\ sendCount = (IF request = NoRequest THEN 0 ELSE 1)
       /\ (response # NoResponse => pc = "done" /\ sendCount = 1)
  /\ (pc # "idle" /\ IsLogin(input)) =>
       /\ sendCount = 0
       /\ startCount = (IF request = NoRequest THEN 0 ELSE 1)
       /\ (pollCount > 0 => startCount = 1)
       /\ (response # NoResponse /\ pollCount = 0 /\ pc \notin {"browser"} => pc = "done")

\* the request of a command other than login was answered 429 and the
\* command is over having issued one request
C6_Witness ==
  /\ pc = "done"
  /\ ~IsLogin(input)
  /\ Failed(response, 429)
  /\ sendCount = 1
  /\ inflight = 0

\* ------------------------------------------------------------------------
\* C7
\* ------------------------------------------------------------------------

Letters == Range(LowerLetters) \cup Range(UpperLetters)

\* v is two ASCII letters once the white space at its ends is removed
TwoLetters(v) ==
  NonBlank(v) /\ Len(Stripped(v)) = 2 /\ \A k \in 1..2 : Stripped(v)[k] \in Letters

\* the entries of a comma-separated list
Entries(v) ==
  LET cuts == {0, Len(v) + 1} \cup { k \in 1..Len(v) : v[k] = "," }
  IN  { SubSeq(v, p[1] + 1, p[2] - 1) :
          p \in { q \in cuts \X cuts :
                    q[1] < q[2] /\ ~\E c \in cuts : q[1] < c /\ c < q[2] } }

\* v is an integer of lo..hi written in digits
IntegerIn(v, lo, hi) ==
  NonBlank(v) /\ AllDigits(Stripped(v)) /\ Len(Stripped(v)) <= 4
    /\ DigitsValue(Stripped(v), 0) \in lo..hi

\* the value given to an option is one the specification rejects
InvalidValue(name, v) ==
  CASE name = OPT_REGION -> ~TwoLetters(v)
    [] name = OPT_REGIONS -> \E e \in Entries(v) : ~TwoLetters(e)
    [] name = OPT_PLATFORM ->
         ~(NonBlank(v) /\ toLowerCase(Stripped(v)) \in SUPPORTED_PLATFORMS)
    [] name = OPT_PERIOD ->
         ~(NonBlank(v) /\ Stripped(v) \in {<<"7">>, <<"3", "0">>, <<"9", "0">>})
    [] name = OPT_PAGE -> ~IntegerIn(v, 1, 1000)
    [] name = OPT_SORT -> resolveTrackedKeywordsSortArg(v).err # ""
    [] name = OPT_ORDER -> resolveTrackedKeywordsOrderArg(v).err # ""
    [] name = OPT_RELATED -> parseAppInput(v) = Null
    [] name = OPT_APP ->
         NonBlank(v) /\ parseAppInput(v) = Null /\ normalizePlannedTrackedAppId(v) = Null
    [] name = OPT_ID -> normalizePlannedTrackedAppId(v) = Null
    [] name = OPT_DATE -> normalizeDateOnly(v) = Null
    [] OTHER -> FALSE

\* the invocation has no token that is the option name
Omits(i, name) == \A k \in 1..Len(Argv(i.base, i.variation)) : Argv(i.base, i.variation)[k] # name

\* the commands the documentation gives a --region option
AcceptsRegion(i) ==
  \/ i.base.command \in {"search-apps", "keywords", "track-app", "untrack-app", "plan-app",
                         "unplan-app", "tracked-keywords", "charts"}
  \/ i.base.command = "related-apps" /\ i.base.sub = <<SUB_ADD>>

AcceptsPlatform(i) ==
  i.base.command \in {"search-apps", "keywords", "track-app", "untrack-app", "plan-app",
                      "unplan-app", "tracked-keywords", "related-apps", "charts", "features",
                      "ratings"}

AcceptsPeriod(i) == i.base.command \in {"charts", "ratings"}

\* the command of the invocation takes the option
Accepts(i, name) ==
  CASE name = OPT_REGION -> AcceptsRegion(i)
    [] name = OPT_REGIONS -> i.base.command = "charts"
    [] name = OPT_PLATFORM -> AcceptsPlatform(i)
    [] name = OPT_PERIOD -> AcceptsPeriod(i)
    [] name \in {OPT_PAGE, OPT_SORT, OPT_ORDER} ->
         i.base.command = "tracked-keywords" /\ i.base.kw = 0
    [] name = OPT_RELATED ->
         i.base.command = "related-apps" /\ i.base.sub \in {<<SUB_ADD>>, <<SUB_REMOVE>>}
    [] name = OPT_APP -> OPT_APP \in Range(i.base.pre)
    [] name = OPT_ID -> OPT_ID \in Range(i.base.pre)
    [] name = OPT_DATE -> i.base.command = "events" /\ i.base.sub = <<SUB_ADD>>
    [] OTHER -> FALSE

\* the invocation has an argument the specification rejects: an option of
\* the command with a bad value or without its value, a token starting with
\* -- that is no option, or an event id that is no integer
InvalidArguments(i) ==
  LET front == i.variation.front
      back == i.variation.back
  IN  \/ /\ Len(front) = 2
         /\ front[1] \in ValueOptions
         /\ Accepts(i, front[1])
         /\ InvalidValue(front[1], front[2])
      \/ front = <<<<"-", "-", "j", "s", "n", "o">>>>
      \/ Len(back) = 1 /\ back[1] \in ValueOptions /\ Accepts(i, back[1])
      \/ (i.base.command = "events" /\ i.base.sub = <<SUB_DELETE>> /\ ~i.variation.drop
            /\ ~IntegerIn(i.base.pre[1], 1, 9999))

\* C7: a command that has an invalid argument or option value issues no HTTP
\* request.
C7_ValidationBeforeNetwork ==
  (pc # "idle" /\ InvalidArguments(input)) => (sendCount = 0 /\ startCount = 0)

\* ------------------------------------------------------------------------
\* C8
\* ------------------------------------------------------------------------

\* an invocation of a keyword command whose arguments are the required ones
\* followed by keywords only
KeywordCase(i) ==
  /\ i.base.command \in KeywordCommands
  /\ i.base.kw = 1
  /\ i.variation.front = <<>>
  /\ ~i.variation.drop
  /\ i.variation.back \in {<<>>, <<T_BLANK>>}

\* the number of its keyword arguments that are not blank
KeywordsGiven(i) == IF i.variation.kw < 0 THEN i.base.kw ELSE i.variation.kw

\* the cap of the command: 50 for the metrics lookup, 200 for the tracked
\* keywords
KeywordCap(i) == IF i.base.command = "keywords" THEN 50 ELSE 200

\* C8: a keyword command (keywords; tracked-keywords add and remove) of an
\* authenticated user issues its request exactly when it is given between 1
\* and cap keywords that are not blank, with those keywords; given none or
\* more than cap it fails without a request.
C8_KeywordCaps ==
  (pc # "idle" /\ KeywordCase(input)) =>
     LET n == KeywordsGiven(input)
         within == n >= 1 /\ n <= KeywordCap(input)
     IN  /\ (sendCount = 1) = (within /\ NonBlank(configBefore.accessToken))
         /\ sendCount = 1 => Len(request.keywords) = n
         /\ ~within => /\ pc = "done"
                       /\ exitCode = 1
                       /\ request = NoRequest
                       /\ thrown.message \in
                            {"Provide at least one keyword",
                             "At most 50 keywords are allowed per request",
                             "At most 200 keywords are allowed per request"}

\* keywords with 50 keywords and a blank one is waiting for its response
C8_Witness ==
  /\ pc = "request"
  /\ input.base.command = "keywords"
  /\ KeywordCase(input)
  /\ input.variation.back = <<T_BLANK>>
  /\ KeywordsGiven(input) = 50
  /\ Len(request.keywords) = 50

\* ------------------------------------------------------------------------
\* C9
\* ------------------------------------------------------------------------

\* v is two upper case ASCII letters
UpperPair(v) == v # Null /\ Len(v) = 2 /\ \A k \in 1..2 : v[k] \in Range(UpperLetters)

\* C9: every region a request carries, in its region field or in its list
\* of regions, is two upper case ASCII letters.
C9_RegionsRejected ==
  (request # NoRequest) =>
     /\ request.region # Null => UpperPair(request.region)
     /\ \A k \in 1..Len(request.regions) : UpperPair(request.regions[k])

\* ------------------------------------------------------------------------
\* C10
\* ------------------------------------------------------------------------

\* C10: the request of a command that accepts the option carries region US
\* when --region (and --regions) is omitted, platform iphone when --platform
\* is omitted, and period 30 when --period is omitted.
C10_Defaults ==
  (pc # "idle" /\ sendCount = 1) =>
     /\ (AcceptsRegion(input) /\ Omits(input, OPT_REGION) /\ Omits(input, OPT_REGIONS))
          => (request.region = <<"U", "S">> \/ request.regions = <<<<"U", "S">>>>)
     /\ (AcceptsPlatform(input) /\ Omits(input, OPT_PLATFORM))
          => request.platform = <<"i", "p", "h", "o", "n", "e">>
     /\ (AcceptsPeriod(input) /\ Omits(input, OPT_PERIOD)) => request.period = 30

\* ------------------------------------------------------------------------
\* C11
\* ------------------------------------------------------------------------

\* The invocation is over and the failure apiRequest raised for the last
\* response is the one that reached run().catch: the request of a command,
\* or the start request of a login, was answered with a non-success status.
GatewayFailure ==
  /\ pc = "done"
  /\ response # NoResponse
  /\ ~response.transport
  /\ ~ResponseOk(response)
  /\ IsLogin(input) => pollCount = 0

\* the body text as the program reads it
TextRead == IF response.readable THEN response.text ELSE <<>>

\* the body is a JSON object with a string error field
HasErrorField ==
  /\ ~JSONparse(TextRead).threw
  /\ JSONparse(TextRead).value.type = "object"
  /\ JSONparse(TextRead).value.errorIsString

\* C11: the failure raised for a non-success response whose body is a JSON
\* object with a string error field has that field's value as message, the
\* whole parsed object as payload, and the HTTP status as status.
C11_JsonErrorDecoding ==
  (GatewayFailure /\ HasErrorField) =>
     /\ thrown.message = JSONparse(TextRead).value.error
     /\ thrown.payload = JSONparse(TextRead).value
     /\ thrown.status = response.status

\* a command was answered 500 with the body {"error":"boom"}
C11_Witness ==
  /\ GatewayFailure
  /\ ~IsLogin(input)
  /\ response.status = 500
  /\ response.text = TEXT_BOOM
  /\ thrown.message = "boom"
  /\ thrown.payload.isObject
  /\ thrown.status = 500

\* ------------------------------------------------------------------------
\* C12
\* ------------------------------------------------------------------------

\* the body texts explored that resemble an HTML document: they start with
\* a doctype or html tag, or contain a body tag
HtmlTexts == {TEXT_HTML, TEXT_HTML_UPPER, TEXT_HTML_BODY, TEXT_JSON_STRING}

\* the message synthesized for an HTML body
HtmlMessage ==
  "Request failed (" \o ToString(response.status) \o " " \o response.statusText
    \o "). Received HTML response from "
    \o (IF response.url = "" THEN "https://server.asosuite.com" ELSE response.url) \o "."

\* the body is not JSON and resembles an HTML document
IsHtmlCase == JSONparse(TextRead).threw /\ TextRead \in HtmlTexts

\* C12 as claimed: the failure raised for a non-success response whose body
\* is not a JSON object with a string error field has the synthesized
\* message when the body is not JSON and resembles HTML, and the raw body
\* text as message in every other case.
C12_NonJsonDecoding ==
  (GatewayFailure /\ ~HasErrorField) =>
     IF IsHtmlCase
     THEN thrown.message = HtmlMessage /\ thrown.message # Text(TextRead)
     ELSE thrown.message = Text(TextRead)

\* C12 as amended: the same, except that for an empty body text the message
\* is the status code and the status text.
C12_NonJsonDecodingAmended ==
  (GatewayFailure /\ ~HasErrorField) =>
     /\ thrown.status = response.status
     /\ IF TextRead = <<>>
        THEN thrown.message = ToString(response.status) \o " " \o response.statusText
        ELSE IF IsHtmlCase
        THEN thrown.message = HtmlMessage /\ thrown.message # Text(TextRead)
        ELSE thrown.message = Text(TextRead)

\* a command was answered 502 by a proxy with an HTML page in upper case
C12_Witness ==
  /\ GatewayFailure
  /\ ~IsLogin(input)
  /\ response.status = 502
  /\ response.text = TEXT_HTML_UPPER
  /\ thrown.message
       = "Request failed (502 Bad Gateway). Received HTML response from https://proxy.example."
  /\ thrown.payload = NoPayload

\* ------------------------------------------------------------------------
\* C13
\* ------------------------------------------------------------------------

\* the invocation ended with a failure that reached run().catch
FailureReported == pc = "done" /\ thrown # NoError

\* the tenths of a second in the retryAfterSeconds of the failure's payload
RetryTenths == 10 * thrown.payload.retryAfterSeconds.n + thrown.payload.retryAfterSeconds.frac

\* the least whole number of seconds that is not below RetryTenths
RetryRoundedUp == CHOOSE k \in 0..1000 : 10 * k >= RetryTenths /\ 10 * (k - 1) < RetryTenths

\* C13: the lines written for a failure are chosen by its status alone: the
\* fixed prompt for 401; the message, and a Subscribe line exactly when the
\* payload has a non-blank subscribeUrl, for 402; the message, and a retry
\* line with the seconds rounded up exactly when retryAfterSeconds is a
\* number above 0, for 429; the two lines of the endpoint hint for 404; and
\* the message alone for any other or no status.
C13_FailureTaxonomy ==
  FailureReported =>
    CASE thrown.status = 401 -> stderr = <<"Authentication failed. Run asosuite login again.">>
      [] thrown.status = 402 ->
           stderr = <<thrown.message>>
                      \o (IF NonBlank(thrown.payload.subscribeUrl)
                          THEN <<"Subscribe: " \o Text(thrown.payload.subscribeUrl)>>
                          ELSE <<>>)
      [] thrown.status = 429 ->
           stderr = <<thrown.message>>
                      \o (IF thrown.payload.retryAfterSeconds.present /\ RetryTenths > 0
                          THEN <<"Retry after: " \o ToString(RetryRoundedUp) \o "s">>
                          ELSE <<>>)
      [] thrown.status = 404 ->
           stderr = <<"CLI endpoint not found on server.",
                      "Expected server URL: https://server.asosuite.com">>
      [] OTHER -> stderr = <<thrown.message>>

\* a command was answered 429 with retryAfterSeconds 1.5 and the retry line
\* shows 2 seconds
C13_Witness ==
  /\ FailureReported
  /\ ~IsLogin(input)
  /\ thrown.status = 429
  /\ thrown.payload.retryAfterSeconds = Decimal(1, 5)
  /\ stderr = <<"rate limited", "Retry after: 2s">>

\* ------------------------------------------------------------------------
\* C14
\* ------------------------------------------------------------------------

\* the command of the invocation, as run() reads it
Command(i) == parseArgs(i.base.command)

\* no request was issued by the invocation
NothingSent == sendCount = 0 /\ startCount = 0

\* the last response of the invocation is a failure
LastResponseFailed == response # NoResponse /\ (response.transport \/ ~ResponseOk(response))

\* the handler read a field of the null a 204 response is returned as
ReadFieldOfNull ==
  /\ response # NoResponse /\ ~response.transport /\ response.status = 204
  /\ Command(input) \in {"subscription", "keywords"}
  /\ \A k \in 1..Len(Argv(input.base, input.variation)) :
        Argv(input.base, input.variation)[k] # OPT_JSON

\* The handler completed without raising: help and logout always do, a
\* login does when it stored the credential, and every other command when
\* its request was answered with a success status that it could print.
Completed ==
  CASE Command(input) \in {"help", "--help", "-h", "logout"} -> TRUE
    [] Command(input) = "login" -> saveCount = 1
    [] OTHER -> sendCount = 1 /\ ~LastResponseFailed /\ ~ReadFieldOfNull

\* C14: an invocation ends with exit code 0 exactly when its handler
\* completed without raising; otherwise (no request because of a validation
\* error, a missing credential or an unknown command; a failure response; a
\* login that stored nothing) it ends with exit code 1 and at least one
\* line on standard error.
C14_ExitCodes ==
  pc = "done" =>
     /\ (exitCode = 0) = Completed
     /\ exitCode \in {0, 1}
     /\ exitCode = 1 => Len(stderr) >= 1
     /\ exitCode = 0 => stderr = <<>>
     /\ (NothingSent /\ Command(input) \notin {"help", "--help", "-h", "logout"}) => exitCode = 1
     /\ LastResponseFailed => exitCode = 1
     /\ (IsLogin(input) /\ saveCount = 0) => exitCode = 1

\* a command was answered 401: exit code 1 and the prompt on standard error
C14_Witness ==
  /\ pc = "done"
  /\ ~IsLogin(input)
  /\ sendCount = 1
  /\ response.status = 401
  /\ exitCode = 1
  /\ stderr = <<"Authentication failed. Run asosuite login again.">>

\* ------------------------------------------------------------------------
\* C15
\* ------------------------------------------------------------------------

\* the commands of the documented CLI surface
DocumentedCommands ==
  {"login", "logout", "subscription", "search-apps", "list-apps", "keywords", "track-app",
   "untrack-app", "plan-app", "unplan-app", "tracked-keywords", "related-apps", "events",
   "charts", "features", "ratings", "help"}

\* the commands run() handles besides them: the help flags, and three
\* commands no document names
UndocumentedCommands ==
  {"--help", "-h", "add-keywords", "remove-keywords", "remove-planned-keywords"}

\* the invocation failed as an unknown command, with no request and no write
\* of the credential file
UnknownCommandFailure ==
  /\ pc = "done"
  /\ thrown.message = "Unknown command"
  /\ exitCode = 1
  /\ NothingSent
  /\ request = NoRequest
  /\ saveCount = 0
  /\ config = configBefore

\* the paths of the requests the handler of a documented command issues
HandlerPaths(command) ==
  CASE command = "login" -> {"/api/cli/auth/start", "/api/cli/auth/token"}
    [] command = "subscription" -> {"/api/cli/subscription"}
    [] command = "search-apps" -> {"/api/cli/apps/search"}
    [] command = "list-apps" -> {"/api/cli/apps/list"}
    [] command = "keywords" -> {"/api/cli/keywords/metrics"}
    [] command \in {"track-app", "untrack-app"} -> {"/api/cli/apps/track"}
    [] command \in {"plan-app", "unplan-app"} -> {"/api/cli/apps/planned"}
    [] command = "tracked-keywords" ->
         {"/api/cli/apps/{appIdentifier}/{platform}/tracked-keywords",
          "/api/cli/apps/keywords", "/api/cli/apps/planned/keywords"}
    [] command = "related-apps" -> {"/api/cli/apps/{appId}/{platform}/related-apps"}
    [] command = "events" -> {"/api/cli/events", "/api/cli/events/{id}"}
    [] command = "charts" -> {"/api/cli/apps/{appId}/{platform}/charts"}
    [] command = "features" -> {"/api/cli/apps/{appId}/{platform}/features"}
    [] command = "ratings" -> {"/api/cli/apps/{appId}/{platform}/ratings"}
    [] OTHER -> {}

\* C15 as claimed: an invocation whose command is not in the documented CLI
\* surface fails with the Unknown command error, issues no request and does
\* not write the credential file.
C15_Dispatch ==
  (pc # "idle" /\ input.base.command \notin DocumentedCommands \cup {""})
     => UnknownCommandFailure

\* C15 as amended: the same for a command that is neither documented nor
\* one of --help, -h, add-keywords, remove-keywords, remove-planned-keywords;
\* and a documented command, in its exact case, issues only the requests of
\* its own handler and does not fail as unknown.
C15_DispatchAmended ==
  pc # "idle" =>
    /\ input.base.command \notin DocumentedCommands \cup UndocumentedCommands \cup {""}
         => UnknownCommandFailure
    /\ input.base.command \in DocumentedCommands
         => /\ thrown.message # "Unknown command"
            /\ request # NoRequest => request.path \in HandlerPaths(input.base.command)

\* the command Login, in another case than login, failed as unknown
C15_Witness ==
  /\ input.base.command = "Login"
  /\ UnknownCommandFailure

\* ------------------------------------------------------------------------
\* C16
\* ------------------------------------------------------------------------

\* the commands that take an app target through consumeAppId
AppTargetCommands ==
  {"keywords", "track-app", "untrack-app", "related-apps", "charts", "features", "ratings"}

\* the arguments the handler receives (the subcommand is taken off before)
HandlerArgs(i) == SubSeq(Argv(i.base, i.variation), Len(i.base.sub) + 1, Len(Argv(i.base, i.variation)))

\* The invocations the claim is checked on: a command that takes an app
\* target, with no other change to its arguments than --json, --platform or
\* --app in front of them, and --app given at most once.
LocatorCase(i) ==
  /\ i.base.command \in AppTargetCommands
  /\ i.variation.back \in {<<>>, <<T_BLANK>>}
  /\ \/ i.variation.front = <<>>
     \/ i.variation.front[1] \in {OPT_JSON, OPT_PLATFORM}
     \/ /\ i.variation.front[1] = OPT_APP
        /\ \A k \in 1..Len(HandlerArgs(i)) : k > 1 => HandlerArgs(i)[k] # OPT_APP

\* the positional arguments: the tokens that are neither an option nor the
\* value of one
RECURSIVE Positionals(_)
Positionals(args) ==
  IF args = <<>> THEN <<>>
  ELSE IF Head(args) \in ValueOptions THEN Positionals(SubSeq(args, 3, Len(args)))
  ELSE IF startsWith(Head(args), <<"-", "-">>) THEN Positionals(Tail(args))
  ELSE <<Head(args)>> \o Positionals(Tail(args))

\* the value of the first occurrence of the option, Null when there is none
RECURSIVE OptionGiven(_, _)
OptionGiven(args, name) ==
  IF Len(args) < 2 THEN Null
  ELSE IF Head(args) = name THEN args[2]
  ELSE OptionGiven(Tail(args), name)

\* the first positional argument, Null when there is none
FirstPositional(i) ==
  IF Positionals(HandlerArgs(i)) = <<>> THEN Null ELSE Positionals(HandlerArgs(i))[1]

\* the app target of the request
RequestApp == IF request.app # Null THEN request.app ELSE request.appId

\* the number of positional arguments that are keywords once normalized
KeywordArguments(i) ==
  Cardinality({ k \in 1..Len(Positionals(HandlerArgs(i))) :
                  normalizeKeyword(Positionals(HandlerArgs(i))[k]) # <<>> })

\* C16 as claimed: whenever the first positional argument is an app locator
\* it is the app target of the request and is not among the arguments left
\* (for keywords: it is not sent as a keyword), whether or not --app is
\* given.
C16_GreedyLocator ==
  (pc # "idle" /\ LocatorCase(input) /\ sendCount = 1
     /\ FirstPositional(input) # Null /\ parseAppInput(FirstPositional(input)) # Null)
  => /\ RequestApp = parseAppInput(FirstPositional(input))
     /\ input.base.command = "keywords"
          => Len(request.keywords) = KeywordArguments(input) - 1

\* C16 as amended: the --app option is consulted first.  With a non-empty
\* --app value that value is the app target and every positional argument
\* is left in place; without one, the first positional argument is the app
\* target and is removed when it is an app locator, and is left in place
\* otherwise.
C16_GreedyLocatorAmended ==
  (pc # "idle" /\ LocatorCase(input) /\ sendCount = 1) =>
     LET option == OptionGiven(HandlerArgs(input), OPT_APP)
         first == FirstPositional(input)
         sent == IF input.base.command = "keywords" THEN Len(request.keywords) ELSE 0
         left == IF input.base.command = "keywords" THEN KeywordArguments(input) ELSE 0
     IN  IF option # Null /\ option # <<>>
         THEN RequestApp = parseAppInput(option) /\ sent = left
         ELSE IF first # Null /\ parseAppInput(first) # Null
         THEN /\ RequestApp = parseAppInput(first)
              /\ sent = (IF input.base.command = "keywords" THEN left - 1 ELSE 0)
         ELSE RequestApp = Null /\ sent = left

\* keywords 644831 run: the first argument became the app and only run is
\* sent as a keyword
C16_Witness ==
  /\ pc = "request"
  /\ input.base.command = "keywords"
  /\ LocatorCase(input)
  /\ input.variation.front = <<>>
  /\ FirstPositional(input) = T_APP
  /\ request.appId = T_APP
  /\ request.keywords = <<T_KEYWORD>>

\* ------------------------------------------------------------------------
\* C17
\* ------------------------------------------------------------------------

\* no HTTP request was issued by the invocation
NoHttpRequest == sendCount = 0 /\ startCount = 0 /\ pollCount = 0 /\ inflight = 0

\* the invocation started with no usable credential and runs a documented
\* command other than help, login and logout
Unauthenticated ==
  /\ pc # "idle"
  /\ ~(configBefore.accessToken # Null /\ trim(configBefore.accessToken) # <<>>)
  /\ Command(input) \in DocumentedCommands \ {"help", "login", "logout"}

\* a credential file that holds a token
StoredCredential ==
  [accessToken |-> <<"t", "k", "0">>, expiresAt |-> T_EXPIRES, other |-> FALSE]

\* what the same invocation does up to its first request when a token is
\* stored
WithCredential(i) == run(parseArgs(i.base.command), Argv(i.base, i.variation), StoredCredential)

\* logout left the empty object in the credential file, by one write
LoggedOut ==
  (pc = "done" /\ Command(input) = "logout")
  => config = EmptyConfig /\ saveCount = 1 /\ thrown = NoError /\ NoHttpRequest

Authenticated == IsLogin(input) /\ pc = "done" /\ thrown = NoError /\ pollCount >= 1

\* the login ended otherwise: EXPIRED (410), INVALIDATED (409, 400),
\* TIMED_OUT or a fatal error, a failed start included
LoginFailed == IsLogin(input) /\ pc = "done" /\ thrown # NoError

\* C18: the credential file is written only by logout and by a login that
\* ends AUTHENTICATED (once, with the token of the response); during and
\* after every other invocation, and every login that ends otherwise, the
\* file is as it was before the invocation.
C18_CredentialFrame ==
  /\ saveCount <= 1
  /\ (saveCount > 0 \/ config # configBefore)
       => Command(input) = "logout" \/ Authenticated
  /\ Authenticated
       => /\ saveCount = 1
          /\ config = [accessToken |-> trim(response.body.accessToken),
                       expiresAt |-> trim(response.body.expiresAt), other |-> FALSE]
  /\ LoginFailed => saveCount = 0 /\ config = configBefore

\* a login that polled and ended in an error left the stored credential
C18_Witness ==
  /\ LoginFailed
  /\ pollCount >= 1
  /\ getAccessToken(configBefore) # Null
  /\ config = configBefore
  /\ saveCount = 0

\* ------------------------------------------------------------------------
\* C19
\* ------------------------------------------------------------------------

Whitespace == {" "}
QuoteCharacters == {"\"", "'"}

\* non-empty, no whitespace or quote character at either end, no run of two
\* or more whitespace characters
CleanKeyword(k) ==
  /\ k # <<>>
  /\ k[1] \notin Whitespace \cup QuoteCharacters
  /\ k[Len(k)] \notin Whitespace \cup QuoteCharacters
  /\ \A n \in 1..(Len(k) - 1) : ~(k[n] \in Whitespace /\ k[n + 1] \in Whitespace)

\* C19: every keyword of a request of the keywords and tracked-keywords
\* add/remove commands is non-empty, has no leading or trailing whitespace,
\* no run of two or more whitespace characters, and no leading or trailing
\* quote character.
C19_CleanKeywords ==
  \A n \in 1..Len(request.keywords) : CleanKeyword(request.keywords[n])

\* ------------------------------------------------------------------------
\* C20
\* ------------------------------------------------------------------------

\* empty after trimming (a missing field reads as the empty string)
EmptyAfterTrim(code) == code = Null \/ trim(code) = <<>>

\* the start response arrived with a payload whose userCode or deviceCode
\* is empty after trimming (before any poll, response is the start response)
InvalidStartPayload ==
  /\ IsLogin(input)
  /\ startCount = 1
  /\ pc # "start"
  /\ pollCount = 0
  /\ ~apiRequest(response).threw
  /\ ~response.body.isNull
  /\ EmptyAfterTrim(response.body.userCode) \/ EmptyAfterTrim(response.body.deviceCode)

\* C20: the start request is issued once; a start payload whose userCode or
\* deviceCode is empty after trimming ends the login with the fatal error
\* before any token-poll request, before the browser is opened and without
\* a write of the credential file, so the browser is opened and the token
\* polled only after a payload with both codes.
C20_LoginStart ==
  /\ startCount <= 1
  /\ (IsLogin(input) /\ (pc \in {"start", "browser", "poll", "sleep"} \/ pollCount > 0))
       => startCount = 1
  /\ InvalidStartPayload
       => /\ pc = "done"
          /\ thrown = Thrown(MSG_INVALID_START, <<>>)
          /\ openCount = 0
          /\ saveCount = 0
          /\ config = configBefore
          /\ inflight = 0
  /\ (pollCount > 0 \/ openCount > 0 \/ pc \in {"browser", "poll", "sleep"})
       => ~EmptyAfterTrim(start.userCode) /\ ~EmptyAfterTrim(start.deviceCode)

\* a start payload with a blank userCode and a deviceCode ended the login
C20_Witness ==
  /\ InvalidStartPayload
  /\ EmptyAfterTrim(response.body.userCode)
  /\ ~EmptyAfterTrim(response.body.deviceCode)
  /\ response.body.userCode # Null
  /\ pc = "done"
  /\ thrown.message = MSG_INVALID_START

\* ------------------------------------------------------------------------
\* C21
\* ------------------------------------------------------------------------

\* a request has been issued by the invocation
RequestIssued == request # NoRequest

\* C21: the requests of a login (start and token poll) carry no
\* Authorization header, whatever credential is stored; every request of
\* another command carries Bearer followed by the trimmed accessToken the
\* credential file held when the invocation started.
C21_BearerToken ==
  RequestIssued =>
    IF IsLogin(input)
    THEN Authorization(request.accessToken) = Null
    ELSE /\ configBefore.accessToken # Null
         /\ Authorization(request.accessToken)
              = <<"B", "e", "a", "r", "e", "r", " ">> \o trim(configBefore.accessToken)

\* list-apps sent with the token stored as "tk0 "
C21_Witness ==
  /\ pc = "request"
  /\ Command(input) = "list-apps"
  /\ configBefore.accessToken = <<"t", "k", "0", " ">>
  /\ Authorization(request.accessToken) = <<"B", "e", "a", "r", "e", "r", " ", "t", "k", "0">>

\* ------------------------------------------------------------------------
\* C22
\* ------------------------------------------------------------------------

\* the commands that run the tracked-keywords handlers
TrackedKeywordsCommands ==
  {"tracked-keywords", "add-keywords", "remove-keywords", "remove-planned-keywords"}

KeywordsEndpoints == {"/api/cli/apps/planned/keywords", "/api/cli/apps/keywords"}

\* how often the token occurs among the arguments
Occurrences(args, token) == Cardinality({ k \in 1..Len(args) : args[k] = token })

\* The identifier the invocation names with its one --app option (for
\* remove-planned-keywords: with its one --id option and no --app); Null
\* when the target is given in another way.
TargetIdentifier(i) ==
  LET args == HandlerArgs(i)
      name == IF Command(i) = "remove-planned-keywords" THEN OPT_ID ELSE OPT_APP
      other == IF Command(i) = "remove-planned-keywords" THEN OPT_APP ELSE OPT_ID
  IN  IF /\ Occurrences(args, name) = 1
         /\ Occurrences(args, other) = 0
         /\ OptionGiven(args, name) # Null
         /\ trim(OptionGiven(args, name)) # <<>>
      THEN OptionGiven(args, name) ELSE Null

\* the text without any whitespace character
WithoutWhitespace(text) == SelectSeq(text, LAMBDA c : c # " ")

\* the planned id the identifier stands for, Null when it is none
PlannedIdOf(identifier) ==
  IF Len(WithoutWhitespace(identifier)) \in 1..MAX_PLANNED_TRACKED_APP_ID_LENGTH
  THEN WithoutWhitespace(identifier) ELSE Null

\* C22: a request of tracked-keywords add/remove names exactly one of appId
\* and plannedTrackedAppId, and goes to the planned-app keywords endpoint
\* exactly when the planned id is the one named; a list request names the
\* one identifier in its path.  The one named is the appId when the
\* identifier given parses as an app locator, otherwise the identifier
\* without its whitespace when that has 1..64 characters; an identifier
\* that is neither is rejected without a request.
C22_TrackedKeywordsTarget ==
  (pc # "idle" /\ Command(input) \in TrackedKeywordsCommands) =>
    LET identifier == TargetIdentifier(input)
        appId == IF identifier = Null THEN Null ELSE parseAppInput(identifier)
        planned == IF identifier = Null THEN Null ELSE PlannedIdOf(identifier)
        target == IF appId # Null THEN appId ELSE planned
    IN  /\ request.path \in KeywordsEndpoints
             => /\ (request.appId = Null) # (request.plannedTrackedAppId = Null)
                /\ request.path = "/api/cli/apps/planned/keywords"
                     <=> request.plannedTrackedAppId # Null
                /\ identifier # Null
                     => /\ target # Null
                        /\ request.appId = appId
                        /\ request.plannedTrackedAppId = (IF appId # Null THEN Null ELSE planned)
        /\ (RequestIssued /\ request.path \notin KeywordsEndpoints /\ identifier # Null)
             => target # Null /\ request.app = target
        /\ (identifier # Null /\ target = Null)
             => ~RequestIssued /\ pc = "done" /\ thrown # NoError

\* remove-planned-keywords --id "my id" run: sent to the planned-app
\* endpoint with the planned id myid
C22_Witness ==
  /\ pc = "request"
  /\ Command(input) = "remove-planned-keywords"
  /\ TargetIdentifier(input) = <<"m", "y", " ", "i", "d">>
  /\ request.path = "/api/cli/apps/planned/keywords"
  /\ request.plannedTrackedAppId = <<"m", "y", "i", "d">>
  /\ request.appId = Null

\* ------------------------------------------------------------------------
\* C23
\* ------------------------------------------------------------------------

\* (a) the whole text is id, in either case, and at least 6 digits
WholePrefixed(t) ==
  /\ Len(t) >= 2 + APP_ID_MIN_LENGTH
  /\ t[1] \in {"i", "I"} /\ t[2] \in {"d", "D"}
  /\ \A k \in 3..Len(t) : t[k] \in DigitChars

\* (b) the whole text is at least 6 digits
WholeDigits(t) == Len(t) >= APP_ID_MIN_LENGTH /\ \A k \in 1..Len(t) : t[k] \in DigitChars

\* What the strategies give for a text, in their order: (a), (b), then for
\* the texts tried (c) the id segment of the URL path and (d) the id
\* embedded in the text; Null when no strategy matches.
ExpectedAppId(text) ==
  LET t == trim(text)
  IN  IF WholePrefixed(t) THEN SubSeq(t, 3, Len(t))
      ELSE IF WholeDigits(t) THEN t
      ELSE CASE text = L_HOST_AND_PATH -> <<"1", "1", "1", "1", "1", "1">>
             [] text = L_SENTENCE -> <<"1", "2", "3", "4", "5", "6">>
             [] text = L_URL_EMBEDDED -> <<"6", "5", "4", "3", "2", "1">>
             [] OTHER -> Null

\* features --app <text> with one of the locator texts
LocatorTried == pc # "idle" /\ input.variation \in LocatorVariations

\* C23: the text is trimmed and the strategies are tried in the order (a),
\* (b), (c), (d): the app of the request is the digit run of the first
\* strategy that matches; a text that no strategy matches (a malformed URL
\* included) is rejected as an invalid --app value, with no other error;
\* every app id sent has only digits, at least 6 of them.
C23_LocatorStrategies ==
  /\ LocatorTried =>
        LET expected == ExpectedAppId(input.variation.front[2])
        IN  IF expected = Null
            THEN pc = "done" /\ ~RequestIssued /\ thrown.message = MSG_APP_INVALID
            ELSE IF getAccessToken(configBefore) = Null
            THEN thrown.message = MSG_NOT_AUTHENTICATED
            ELSE RequestIssued /\ request.app = expected
  /\ (RequestIssued /\ Command(input) \in AppTargetCommands)
        => \A sent \in {request.app, request.appId} \ {Null} :
             Len(sent) >= APP_ID_MIN_LENGTH /\ \A k \in 1..Len(sent) : sent[k] \in DigitChars

\* the URL whose host and path both hold an id: the path's id is the app
C23_Witness ==
  /\ LocatorTried
  /\ pc = "request"
  /\ input.variation.front[2] = L_HOST_AND_PATH
  /\ request.app = <<"1", "1", "1", "1", "1", "1">>

\* ------------------------------------------------------------------------
\* C24
\* ------------------------------------------------------------------------

\* the texts that are literally one of the periods
PeriodLiterals == {<<"7">>, <<"3", "0">>, <<"9", "0">>}

\* charts or ratings invoked with one --period option
PeriodGiven ==
  /\ pc # "idle"
  /\ Command(input) \in {"charts", "ratings"}
  /\ Occurrences(HandlerArgs(input), OPT_PERIOD) = 1
  /\ OptionGiven(HandlerArgs(input), OPT_PERIOD) # Null

\* C24: charts and ratings issue a request only when the --period value is,
\* after trimming, literally 7, 30 or 90; every other value (7days among
\* them) is rejected before any network call.
C24_PeriodLiteral ==
  (PeriodGiven /\ RequestIssued)
    => trim(OptionGiven(HandlerArgs(input), OPT_PERIOD)) \in PeriodLiterals

\* ------------------------------------------------------------------------
\* C25
\* ------------------------------------------------------------------------

\* the value of the decimal digits
RECURSIVE DecimalValue(_)
DecimalValue(digits) ==
  IF digits = <<>> THEN 0
  ELSE 10 * DecimalValue(SubSeq(digits, 1, Len(digits) - 1))
       + (CHOOSE d \in 0..9 : ToString(d) = digits[Len(digits)])

LeapYear(year) == year % 4 = 0 /\ (year % 100 # 0 \/ year % 400 = 0)

DaysInMonth(year, month) ==
  IF month = 2 THEN (IF LeapYear(year) THEN 29 ELSE 28)
  ELSE IF month \in {4, 6, 9, 11} THEN 30 ELSE 31

\* the text has the shape YYYY-MM-DD and names a day of the calendar
CalendarDate(text) ==
  /\ Len(text) = 10
  /\ \A k \in {1, 2, 3, 4, 6, 7, 9, 10} : text[k] \in DigitChars
  /\ text[5] = "-" /\ text[8] = "-"
  /\ DecimalValue(SubSeq(text, 6, 7)) \in 1..12
  /\ DecimalValue(SubSeq(text, 9, 10))
       \in 1..DaysInMonth(DecimalValue(SubSeq(text, 1, 4)), DecimalValue(SubSeq(text, 6, 7)))

\* events add invoked with one --date option
DateGiven ==
  /\ pc # "idle"
  /\ Command(input) = "events"
  /\ input.base.sub = <<SUB_ADD>>
  /\ Occurrences(HandlerArgs(input), OPT_DATE) = 1
  /\ OptionGiven(HandlerArgs(input), OPT_DATE) # Null

\* C25: events add issues its request only when the --date value has the
\* shape YYYY-MM-DD and names a day that exists in the calendar, and then
\* sends that text; every other value (2026-02-30 among them) fails before
\* any network call.
C25_CalendarDate ==
  (DateGiven /\ RequestIssued)
    => /\ CalendarDate(trim(OptionGiven(HandlerArgs(input), OPT_DATE)))
       /\ request.date = trim(OptionGiven(HandlerArgs(input), OPT_DATE))

\* ------------------------------------------------------------------------
\* C26
\* ------------------------------------------------------------------------

\* a keyword command given its app by --app and then up to 51 keyword
\* arguments
KeywordListCase(i) ==
  /\ i.base.command \in KeywordCommands
  /\ i.base.kw = 1
  /\ i.variation.front = <<>>
  /\ ~i.variation.drop
  /\ Positionals(i.base.pre) = <<>>
  /\ i.variation.back \in {<<>>, <<T_BLANK>>, <<T_SPACED_QUOTE>>}
  /\ KeywordsGiven(i) <= MAX_KEYWORDS + 1

\* its keyword arguments, as typed
RawKeywords(i) == KeywordTokens(KeywordsGiven(i)) \o i.variation.back

\* C26: the keywords of a request are the normalized forms of the raw items
\* whose normalized form is not empty, one for each such item, in the order
\* of the raw items, repeated when two raw items have the same form.
C26_KeywordListShape ==
  (pc # "idle" /\ KeywordListCase(input) /\ RequestIssued) =>
     LET raw == RawKeywords(input)
         forms == [k \in 1..Len(raw) |-> normalizeKeyword(raw[k])]
         kept(k) == Cardinality({ m \in 1..k : forms[m] # <<>> })
     IN  /\ Len(request.keywords) = kept(Len(raw))
         /\ \A k \in 1..Len(raw) :
              forms[k] # <<>> => request.keywords[kept(k)] = forms[k]

\* fifty keyword arguments followed by a blank one: fifty keywords are
\* sent, run more than once and a b in the second place
C26_Witness ==
  /\ pc = "request"
  /\ KeywordListCase(input)
  /\ input.variation.back = <<T_BLANK>>
  /\ Len(RawKeywords(input)) = 51
  /\ Len(request.keywords) = 50
  /\ request.keywords[1] = request.keywords[3]
  /\ request.keywords[2] = <<"a", " ", "b">>

\* ------------------------------------------------------------------------
\* C27
\* ------------------------------------------------------------------------

\* Every request eventually returns, the browser call settles and every
\* sleep ends: the steps of a running login are taken when they stay enabled.
FairSpec ==
  /\ Spec
  /\ WF_vars(StartRespond)
  /\ WF_vars(BrowserDone)
  /\ WF_vars(PollRespond)
  /\ WF_vars(SleepDone)

\* the login awaits its start response, the browser, a token response or
\* the end of a sleep
LoginInProgress == pc \in {"start", "browser", "poll", "sleep"}

\* the terminal outcomes of a login
Outcomes == {"AUTHENTICATED", "EXPIRED", "INVALIDATED", "TIMED_OUT", "FATAL"}

\* the outcomes the state of an ended login stands for
OutcomesReached ==
  { o \in Outcomes :
      \/ o = "AUTHENTICATED" /\ thrown = NoError
      \/ o = "EXPIRED" /\ thrown.message = MSG_EXPIRED
      \/ o = "INVALIDATED" /\ thrown.message = MSG_INVALIDATED
      \/ o = "TIMED_OUT" /\ thrown.message = MSG_TIMED_OUT
      \/ o = "FATAL" /\ thrown.message \notin {"", MSG_EXPIRED, MSG_INVALIDATED, MSG_TIMED_OUT} }

\* C27: with every request returning and every sleep ending, a login that
\* has started reaches an end; at its end exactly one outcome holds, the
\* credential was written once if the outcome is AUTHENTICATED and not at
\* all otherwise; the write is the last step of the login; and after the
\* end the process only exits: no request, no sleep, no write.
C27_LoginTerminates ==
  /\ LoginInProgress ~> pc = "done"
  /\ []((IsLogin(input) /\ pc = "done")
          => /\ Cardinality(OutcomesReached) = 1
             /\ saveCount = (IF thrown = NoError THEN 1 ELSE 0)
             /\ inflight = 0)
  /\ [][/\ (LoginInProgress /\ saveCount' # saveCount)
             => saveCount = 0 /\ saveCount' = 1 /\ pc' = "done" /\ thrown' = NoError
        /\ (IsLogin(input) /\ pc = "done")
             => pc' = "idle" /\ config' = config /\ inflight' = 0 /\ sleepCount' = 0]_vars

\* a login ended after it polled more than once and slept in between
C27_Witness ==
  /\ IsLogin(input)
  /\ pc = "done"
  /\ pollCount >= 2
  /\ sleepCount >= 1
  /\ Cardinality(OutcomesReached) = 1

\* ------------------------------------------------------------------------
\* C28
\* ------------------------------------------------------------------------

\* the effective values of the login: E and P, and ceil(E / P)
EffectiveExpiry == ExpiresInSeconds(start)
EffectiveInterval == PollIntervalSeconds(start)
MaxPolls == (EffectiveExpiry + EffectiveInterval - 1) \div EffectiveInterval

\* the login has computed its deadline
DeadlineComputed == IsLogin(input) /\ pc # "idle" /\ deadline > 0

\* C28: once the deadline is computed at least one token poll is issued and
\* never more than ceil(E / P); the k-th poll is issued no earlier than
\* (k - 1) * P seconds after the deadline was computed.
C28_PollBound ==
  DeadlineComputed =>
    /\ pollCount >= 1
    /\ pollCount <= MaxPolls
    /\ now >= (deadline - EffectiveExpiry) + (pollCount - 1) * EffectiveInterval

\* the third and last poll possible with E = 3 and P = 1 is in flight
C28_Witness ==
  /\ DeadlineComputed
  /\ pc = "poll"
  /\ EffectiveExpiry = 3
  /\ EffectiveInterval = 1
  /\ pollCount = 3
  /\ MaxPolls = 3

\* ------------------------------------------------------------------------
\* C29
\* ------------------------------------------------------------------------

\* the text is an option-like token
OptionLike(text) == Len(text) >= 2 /\ text[1] = "-" /\ text[2] = "-"

\* C29: no keyword of a request and no search query starts with --: an
\* argument starting with -- that is not an option of the command (a
\* repeated --region, a mistyped --jsno) is rejected, not sent.
C29_NoUnknownFlagSent ==
  RequestIssued =>
    /\ \A k \in 1..Len(request.keywords) : ~OptionLike(request.keywords[k])
    /\ request.query # Null => ~OptionLike(request.query)

\* ------------------------------------------------------------------------
\* C30
\* ------------------------------------------------------------------------

MSG_UNKNOWN_SUBCOMMAND == "Unknown tracked-keywords subcommand"

\* tracked-keywords invoked with known options only, each given once
SubDispatchCase ==
  /\ pc # "idle"
  /\ Command(input) = "tracked-keywords"
  /\ input.variation.back = <<>>
  /\ \/ input.variation.front = <<>>
     \/ input.variation.front[1] \in {OPT_JSON, OPT_PLATFORM}
     \/ /\ input.variation.front[1] = OPT_APP
        /\ Occurrences(Argv(input.base, input.variation), OPT_APP) = 1

\* the arguments after tracked-keywords, and the first of them as compared
TrackedArgs == Argv(input.base, input.variation)
FirstToken == IF TrackedArgs = <<>> THEN <<>> ELSE toLowerCase(trim(TrackedArgs[1]))

\* the invocation did what the handler does on these arguments
Did(result) ==
  IF result.kind = "request" THEN request = result.req
  ELSE request = NoRequest /\ pc = "done" /\ thrown = result.error

\* the token can stand for an app: it holds an app locator or is a planned
\* id of at most 64 characters that are not whitespace
StandsForApp(token) ==
  parseAppInput(token) # Null \/ PlannedIdOf(token) # Null

AppOf(token) == IF parseAppInput(token) # Null THEN parseAppInput(token) ELSE PlannedIdOf(token)

\* a non-empty --app option is among the arguments
AppOptionGiven ==
  OptionGiven(TrackedArgs, OPT_APP) # Null /\ OptionGiven(TrackedArgs, OPT_APP) # <<>>

\* positional arguments follow the first token
MorePositionals == Positionals(Tail(TrackedArgs)) # <<>>

\* C30 as claimed: list, add and remove, in any case, select their handlers;
\* an absent first token or one starting with -- selects list with the
\* arguments unchanged; any other token that can stand for an app is handled
\* by list as the app target (list rejects positional arguments after it);
\* the unknown-subcommand error is raised only for a token of more than 64
\* characters that holds no app locator.
C30_SubDispatch ==
  SubDispatchCase =>
    /\ FirstToken = SUB_LIST => Did(runTrackedKeywordsList(Tail(TrackedArgs), configBefore))
    /\ FirstToken = SUB_ADD => Did(runTrackedKeywordsAdd(Tail(TrackedArgs), configBefore))
    /\ FirstToken = SUB_REMOVE => Did(runTrackedKeywordsRemove(Tail(TrackedArgs), configBefore))
    /\ (FirstToken = <<>> \/ OptionLike(FirstToken))
         => Did(runTrackedKeywordsList(TrackedArgs, configBefore))
    /\ (FirstToken \notin {<<>>, SUB_LIST, SUB_ADD, SUB_REMOVE} /\ ~OptionLike(FirstToken))
         => IF StandsForApp(FirstToken)
            THEN /\ thrown.message # MSG_UNKNOWN_SUBCOMMAND
                 /\ thrown.message = MSG_UNKNOWN_ARGS => MorePositionals
                 /\ RequestIssued => request.app = AppOf(FirstToken)
            ELSE thrown.message = MSG_UNKNOWN_SUBCOMMAND
    /\ thrown.message = MSG_UNKNOWN_SUBCOMMAND
         => /\ Len(WithoutWhitespace(FirstToken)) > MAX_PLANNED_TRACKED_APP_ID_LENGTH
            /\ parseAppInput(FirstToken) = Null

\* C30 as amended: the same, except that a first token starting with -- is
\* put back trimmed and in lower case before list runs, and that any other
\* token that can stand for an app is the app target of list only when no
\* non-empty --app option is given; with one, the token is left over and
\* list fails with the unknown-arguments error.
C30_SubDispatchAmended ==
  SubDispatchCase =>
    /\ FirstToken = SUB_LIST => Did(runTrackedKeywordsList(Tail(TrackedArgs), configBefore))
    /\ FirstToken = SUB_ADD => Did(runTrackedKeywordsAdd(Tail(TrackedArgs), configBefore))
    /\ FirstToken = SUB_REMOVE => Did(runTrackedKeywordsRemove(Tail(TrackedArgs), configBefore))
    /\ FirstToken = <<>> => Did(runTrackedKeywordsList(TrackedArgs, configBefore))
    /\ OptionLike(FirstToken)
         => Did(runTrackedKeywordsList(<<FirstToken>> \o Tail(TrackedArgs), configBefore))
    /\ (FirstToken \notin {<<>>, SUB_LIST, SUB_ADD, SUB_REMOVE} /\ ~OptionLike(FirstToken))
         => IF StandsForApp(FirstToken)
            THEN /\ Did(runTrackedKeywordsList(<<FirstToken>> \o Tail(TrackedArgs), configBefore))
                 /\ IF AppOptionGiven
                    THEN ~RequestIssued /\ thrown.message = MSG_UNKNOWN_ARGS
                                        /\ thrown.arg = FirstToken
                    ELSE /\ thrown.message # MSG_UNKNOWN_SUBCOMMAND
                         /\ thrown.message = MSG_UNKNOWN_ARGS => MorePositionals
                         /\ RequestIssued => request.app = AppOf(FirstToken)
            ELSE thrown.message = MSG_UNKNOWN_SUBCOMMAND
    /\ thrown.message = MSG_UNKNOWN_SUBCOMMAND
         => /\ Len(WithoutWhitespace(FirstToken)) > MAX_PLANNED_TRACKED_APP_ID_LENGTH
            /\ parseAppInput(FirstToken) = Null

\* tracked-keywords lst: the list request is sent for the planned app lst
C30_Witness ==
  /\ SubDispatchCase
  /\ pc = "request"
  /\ FirstToken = <<"l", "s", "t">>
  /\ ~AppOptionGiven
  /\ request.path = "/api/cli/apps/{appIdentifier}/{platform}/tracked-keywords"
  /\ request.app = <<"l", "s", "t">>

====
